---- MODULE Spec2Model ----
(***************************************************************************)
(* Model of the fractal-ts-sdk domain builders: leaf value builders        *)
(* (KebabCaseString, PascalCaseString, OwnerId, ServiceAccountId), the     *)
(* Component / BlueprintComponent / LiveSystemComponent builders and the   *)
(* Fractal / LiveSystem aggregate builders.                                *)
(*                                                                         *)
(* Strings are sequences of one-character strings so that the regular      *)
(* expressions of the validators can be evaluated character by character.  *)
(* JavaScript object references (arrays shared between a DEFAULT_* object  *)
(* and the builders spread from it) are modelled by a heap of arrays.      *)
(***************************************************************************)
EXTENDS Integers, Sequences, FiniteSets, TLC

VARIABLES
    kind,          \* which builder family the run exercises
    leafValue,     \* internalState.value of the leaf builder
    leafBuilt,     \* the object last returned by the leaf builder's build()
    comp,          \* internalState of the component builder
    heap,          \* contents of every components array, by reference
    builders,      \* internalState of each aggregate builder, once created
    built,         \* the aggregate last returned by build()
    fresh,         \* builders with no withX call since creation or reset
    last,          \* the last call: operation, builder, argument, outcome
    pair,          \* the two identifiers handed to equals
    idState,       \* internalState of the composite identifier builder
    versionState,  \* internalState of the version builder
    container,     \* the record inside a GenericParameters instance
    service        \* a deploy or destroy call in progress and its requests

vars == <<kind, leafValue, leafBuilt, comp, heap, builders, built,
          fresh, last, pair, idState, versionState, container,
          service>>

leafVars == <<leafValue, leafBuilt>>
compVars == <<comp>>
aggVars  == <<heap, builders, built>>
extVars  == <<pair, idState, versionState, container, service>>

\* An optional value is a sequence of length 0 or 1.
Nothing == <<>>
Some(x) == <<x>>

----------------------------------------------------------------------------
(* Characters and the regular expressions of the validators                *)

Lower == {"a","b","c","d","e","f","g","h","i","j","k","l","m",
          "n","o","p","q","r","s","t","u","v","w","x","y","z"}
Upper == {"A","B","C","D","E","F","G","H","I","J","K","L","M",
          "N","O","P","Q","R","S","T","U","V","W","X","Y","Z"}
Digit == {"0","1","2","3","4","5","6","7","8","9"}
HexChar == Digit \cup {"a","b","c","d","e","f"} \cup {"A","B","C","D","E","F"}

\* /^[a-z][a-z0-9]*(-[a-z][a-z0-9]*)*$/ run as an automaton:
\* state 0 = segment start, 1 = inside a segment, 2 = dead.
KebabStep(q, c) ==
    CASE q = 0 -> IF c \in Lower THEN 1 ELSE 2
      [] q = 1 -> IF c \in Lower \cup Digit THEN 1
                  ELSE IF c = "-" THEN 0 ELSE 2
      [] OTHER -> 2

RECURSIVE KebabRun(_, _)
KebabRun(q, s) ==
    IF s = <<>> THEN q ELSE KebabRun(KebabStep(q, Head(s)), Tail(s))

MatchesKebabCase(s) == KebabRun(0, s) = 1

\* /^[A-Z][a-zA-Z]*$/
MatchesPascalCase(s) ==
    /\ Len(s) >= 1
    /\ s[1] \in Upper
    /\ \A i \in 2..Len(s) : s[i] \in Lower \cup Upper

\* /^[0-9a-fA-F]{8}-[0-9a-fA-F]{4}-[0-9a-fA-F]{4}-[0-9a-fA-F]{4}-[0-9a-fA-F]{12}$/
UuidGroups == <<8, 4, 4, 4, 12>>

RECURSIVE UuidHyphenAt(_)
UuidHyphenAt(g) ==
    IF g = 1 THEN UuidGroups[1] + 1
    ELSE UuidHyphenAt(g - 1) + UuidGroups[g] + 1

UuidHyphens == {UuidHyphenAt(g) : g \in 1..(Len(UuidGroups) - 1)}
UuidLength  == UuidHyphenAt(Len(UuidGroups)) - 1

MatchesUuid(s) ==
    /\ Len(s) = UuidLength
    /\ \A i \in 1..Len(s) :
          IF i \in UuidHyphens THEN s[i] = "-" ELSE s[i] \in HexChar

\* String.prototype.trim() on the blank character
RECURSIVE TrimLeft(_)
TrimLeft(s) ==
    IF s # <<>> /\ Head(s) = " " THEN TrimLeft(Tail(s)) ELSE s

RECURSIVE TrimRight(_)
TrimRight(s) ==
    IF s # <<>> /\ s[Len(s)] = " " THEN TrimRight(SubSeq(s, 1, Len(s) - 1))
    ELSE s

Trim(s) == TrimRight(TrimLeft(s))

isNonEmptyString(value) == Trim(value) # <<>>

\* In JavaScript every array, the empty one included, is truthy.
ArrayIsTruthy(arr) == TRUE

----------------------------------------------------------------------------
(* Bounded input sets                                                      *)

EmptyString == <<>>

KebabCandidates ==
    { EmptyString,
      <<"a">>,
      <<"m","y","-","s","v","c">>,
      <<"a","1","-","b","2">>,
      <<"M","y","_","S">>,
      <<"0","n","o">>,
      <<"a","-">>,
      <<"a","-","-","b">>,
      <<"a","-","1">> }

PascalCandidates ==
    { EmptyString,
      <<"A">>,
      <<"A","p","i">>,
      <<"A","b","C","d">>,
      <<"w","h","a","t">>,
      <<"A","1">>,
      <<"A","-","b">> }

Hy == <<"-">>
UuidA == <<"5","5","0","e","8","4","0","0">> \o Hy \o <<"e","2","9","b">> \o Hy
         \o <<"4","1","d","4">> \o Hy \o <<"a","7","1","6">> \o Hy
         \o <<"4","4","6","6","5","5","4","4","0","0","0","0">>
UuidB == <<"A","B","C","D","E","F","0","1">> \o Hy \o <<"2","3","4","5">> \o Hy
         \o <<"6","7","8","9">> \o Hy \o <<"a","b","c","d">> \o Hy
         \o <<"e","f","0","0","1","1","2","2","3","3","4","4">>

UuidCandidates ==
    { EmptyString,
      UuidA,
      UuidB,
      <<"w","h","a","t","e","v","e","r">>,
      [UuidA EXCEPT ![1] = "g"],
      [UuidA EXCEPT ![9] = "_"],
      [UuidA EXCEPT ![14] = "0"],
      UuidA \o <<"0">>,
      SubSeq(UuidA, 1, Len(UuidA) - 1),
      <<"x">> \o UuidA }

----------------------------------------------------------------------------
(* Leaf validators                                                         *)

\* An error string is kept as its parts: the context labels put in front of
\* it (outermost first), the fixed text of the rule and the value it quotes.
Err(text, value) == [ctx |-> <<>>, text |-> text, value |-> value]

\* errors.map(x => `[label: value]${x}`)
WithContext(label, value, errors) ==
    [i \in DOMAIN errors |->
        [errors[i] EXCEPT !.ctx = <<[label |-> label, value |-> value]>> \o @]]

\* the expression of the older builder, /^[a-z]+(?:-[a-z0-9]+)*$/:
\* 0 = start, 1 = first segment, 2 = after a hyphen, 3 = later segment
KebabLegacyStep(q, c) ==
    CASE q = 0 -> IF c \in Lower THEN 1 ELSE 4
      [] q = 1 -> IF c \in Lower THEN 1 ELSE IF c = "-" THEN 2 ELSE 4
      [] q = 2 -> IF c \in Lower \cup Digit THEN 3 ELSE 4
      [] q = 3 -> IF c \in Lower \cup Digit THEN 3
                  ELSE IF c = "-" THEN 2 ELSE 4
      [] OTHER -> 4

RECURSIVE KebabLegacyRun(_, _)
KebabLegacyRun(q, s) ==
    IF s = <<>> THEN q
    ELSE KebabLegacyRun(KebabLegacyStep(q, Head(s)), Tail(s))

isValidKebabCaseStringLegacy(value) ==
    IF KebabLegacyRun(0, value) \notin {1, 3}
    THEN <<Err("must be in kebab-case", value)>>
    ELSE <<>>

isValidKebabCaseString(value) ==
    IF ~MatchesKebabCase(value)
    THEN <<Err("must be in kebab-case", value)>>
    ELSE <<>>

isValidPascalCaseString(value) ==
    IF ~MatchesPascalCase(value)
    THEN <<Err("must be in PascalCase", value)>>
    ELSE <<>>

isValidOwnerId(value) ==
    IF ~MatchesUuid(value)
    THEN <<Err("must be a valid uuid", value)>>
    ELSE <<>>

isValidUuid(value) ==
    IF ~MatchesUuid(value)
    THEN <<Err("must be a valid uuid", value)>>
    ELSE <<>>

isValidServiceAccountId(value) ==
    IF value = EmptyString
    THEN <<Err("must be a non-empty string", value)>>
    ELSE isValidUuid(value)

\* toString of a semantic string is kept in the field "shown"
DEFAULT_KEBAB_CASE_STRING  == [value |-> EmptyString, shown |-> EmptyString]
DEFAULT_PASCAL_CASE_STRING == [value |-> EmptyString]
DEFAULT_OWNER_ID           == [value |-> EmptyString]
DEFAULT_STRING             == [value |-> EmptyString]
DEFAULT_SERVICE_ACCOUNT_ID == [value |-> EmptyString]

----------------------------------------------------------------------------
(* Leaf builders: one builder of the chosen kind, called repeatedly        *)

LeafKinds == {"KebabCaseString", "PascalCaseString", "OwnerId",
              "OwnerIdEager", "ServiceAccountId"}

Call(op, who, arg, out, errs) ==
    [op |-> op, who |-> who, arg |-> arg, out |-> out, errs |-> errs]

NoCall == Call("none", "none", <<>>, "none", <<>>)

\* a call on an aggregate builder that returned the builder itself
Returned == Call("call", "builder", <<>>, "ok", <<>>)

\* what a leaf builder's build() does with the errors of its validator
LeafBuild(errs) ==
    IF Len(errs) > 0
    THEN /\ last' = Call("build", kind, <<>>, "SyntaxError", errs)
         /\ UNCHANGED leafVars
    ELSE /\ last' = Call("build", kind, <<>>, "returned", <<>>)
         /\ leafBuilt' = Some([value |-> leafValue])
         /\ UNCHANGED leafValue

LeafStore(value) ==
    /\ leafValue' = value
    /\ last' = Call("withValue", kind, value, "ok", <<>>)
    /\ UNCHANGED leafBuilt

LeafReject(value) ==
    /\ last' = Call("withValue", kind, value, "RangeError", <<>>)
    /\ UNCHANGED leafVars

LeafReset(default) ==
    /\ leafValue' = default.value
    /\ last' = Call("reset", kind, <<>>, "ok", <<>>)
    /\ UNCHANGED leafBuilt

KebabWithValue(value) ==
    /\ kind = "KebabCaseString"
    /\ LeafStore(value)
    /\ UNCHANGED <<kind, extVars, compVars, aggVars, fresh>>

KebabReset ==
    /\ kind = "KebabCaseString"
    /\ LeafReset(DEFAULT_KEBAB_CASE_STRING)
    /\ UNCHANGED <<kind, extVars, compVars, aggVars, fresh>>

KebabBuild ==
    /\ kind = "KebabCaseString"
    /\ LeafBuild(isValidKebabCaseString(leafValue))
    /\ UNCHANGED <<kind, extVars, compVars, aggVars, fresh>>

PascalWithValue(value) ==
    /\ kind = "PascalCaseString"
    /\ LeafStore(value)
    /\ UNCHANGED <<kind, extVars, compVars, aggVars, fresh>>

PascalReset ==
    /\ kind = "PascalCaseString"
    /\ LeafReset(DEFAULT_PASCAL_CASE_STRING)
    /\ UNCHANGED <<kind, extVars, compVars, aggVars, fresh>>

PascalBuild ==
    /\ kind = "PascalCaseString"
    /\ LeafBuild(isValidPascalCaseString(leafValue))
    /\ UNCHANGED <<kind, extVars, compVars, aggVars, fresh>>

\* owner_id.ts, first builder: the guard negates the error ARRAY
OwnerIdRejectsFixed(value) == Len(isValidOwnerId(value)) > 0
OwnerIdRejects(value) == ~ArrayIsTruthy(isValidOwnerId(value))

OwnerIdWithValue(value) ==
    /\ kind = "OwnerId"
    /\ IF OwnerIdRejects(value) THEN LeafReject(value) ELSE LeafStore(value)
    /\ UNCHANGED <<kind, extVars, compVars, aggVars, fresh>>

OwnerIdReset ==
    /\ kind = "OwnerId"
    /\ LeafReset(DEFAULT_OWNER_ID)
    /\ UNCHANGED <<kind, extVars, compVars, aggVars, fresh>>

OwnerIdBuild ==
    /\ kind = "OwnerId"
    /\ LeafBuild(isValidOwnerId(leafValue))
    /\ UNCHANGED <<kind, extVars, compVars, aggVars, fresh>>

\* owner_id.ts, second builder: format checked in withValue, build() only
\* checks that the value is not the default
isOwnerId(value) == MatchesUuid(value)

OwnerIdEagerWithValueStoreFirst(value) ==
    /\ kind = "OwnerIdEager"
    /\ leafValue' = value
    /\ last' = Call("withValue", kind, value,
                    IF ~isOwnerId(value) THEN "RangeError" ELSE "ok", <<>>)
    /\ UNCHANGED leafBuilt
    /\ UNCHANGED <<kind, extVars, compVars, aggVars, fresh>>

OwnerIdEagerWithValue(value) ==
    /\ kind = "OwnerIdEager"
    /\ IF ~isOwnerId(value) THEN LeafReject(value) ELSE LeafStore(value)
    /\ UNCHANGED <<kind, extVars, compVars, aggVars, fresh>>

OwnerIdEagerReset ==
    /\ kind = "OwnerIdEager"
    /\ LeafReset(DEFAULT_STRING)
    /\ UNCHANGED <<kind, extVars, compVars, aggVars, fresh>>

OwnerIdEagerBuild ==
    /\ kind = "OwnerIdEager"
    /\ LeafBuild(IF leafValue = DEFAULT_STRING.value
                 THEN <<Err("OwnerId must be initialized", leafValue)>>
                 ELSE <<>>)
    /\ UNCHANGED <<kind, extVars, compVars, aggVars, fresh>>

ServiceAccountIdWithValue(value) ==
    /\ kind = "ServiceAccountId"
    /\ LeafStore(value)
    /\ UNCHANGED <<kind, extVars, compVars, aggVars, fresh>>

ServiceAccountIdReset ==
    /\ kind = "ServiceAccountId"
    /\ LeafReset(DEFAULT_SERVICE_ACCOUNT_ID)
    /\ UNCHANGED <<kind, extVars, compVars, aggVars, fresh>>

ServiceAccountIdBuild ==
    /\ kind = "ServiceAccountId"
    /\ LeafBuild(isValidServiceAccountId(leafValue))
    /\ UNCHANGED <<kind, extVars, compVars, aggVars, fresh>>

NextLeaf ==
    \/ \E v \in KebabCandidates : KebabWithValue(v)
    \/ KebabReset
    \/ KebabBuild
    \/ \E v \in PascalCandidates : PascalWithValue(v)
    \/ PascalReset
    \/ PascalBuild
    \/ \E v \in UuidCandidates : OwnerIdWithValue(v)
    \/ OwnerIdReset
    \/ OwnerIdBuild
    \/ \E v \in UuidCandidates : OwnerIdEagerWithValue(v)
    \/ OwnerIdEagerReset
    \/ OwnerIdEagerBuild
    \/ \E v \in UuidCandidates : ServiceAccountIdWithValue(v)
    \/ ServiceAccountIdReset
    \/ ServiceAccountIdBuild

----------------------------------------------------------------------------
(* Value objects handed to the entity builders                             *)

Kebab(s)  == [value |-> s, shown |-> s]
Pascal(s) == [value |-> s]

\* a KebabCaseString whose builder was given another value after build():
\* toString() reads the builder's state, value is the copy taken by build()
StaleKebab(s, now) == [value |-> s, shown |-> now]

KebabToString(k) == k.shown

DEFAULT_VERSION == [major |-> 0, minor |-> 0, patch |-> 0]

VersionEquals(a, b) ==
    a.major = b.major /\ a.minor = b.minor /\ a.patch = b.patch

isValidVersion(version) ==
    IF VersionEquals(version, DEFAULT_VERSION)
    THEN <<Err("Version must be initialized", EmptyString)>>
    ELSE <<>>

DEFAULT_COMPONENT_ID == [value |-> DEFAULT_KEBAB_CASE_STRING]

ComponentIdToString(id) == KebabToString(id.value)

isValidId(id) ==
    WithContext("Component Id", KebabToString(id.value),
                isValidKebabCaseString(KebabToString(id.value)))

DEFAULT_COMPONENT_TYPE ==
    [domain |-> "ApiManagement", name |-> DEFAULT_PASCAL_CASE_STRING]

isValidComponentType(type) ==
    LET nameError == isValidPascalCaseString(type.name.value)
    IN  IF Len(nameError) > 0
        THEN WithContext("Component Type", type.name.value, nameError)
        ELSE <<>>

DEFAULT_BLUEPRINT_COMPONENT_TYPE ==
    [domain |-> DEFAULT_COMPONENT_TYPE.domain,
     name |-> DEFAULT_COMPONENT_TYPE.name,
     serviceDeliveryModel |-> "SaaS"]

\* references to GenericParameters containers
DefaultComponentParameters == "DEFAULT_COMPONENT.parameters"
CallerParameters == "aParameters"

DEFAULT_COMPONENT ==
    [type |-> DEFAULT_COMPONENT_TYPE,
     id |-> DEFAULT_COMPONENT_ID,
     version |-> DEFAULT_VERSION,
     displayName |-> EmptyString,
     description |-> EmptyString,
     parameters |-> DefaultComponentParameters,
     links |-> <<>>,
     dependencies |-> <<>>]

DEFAULT_BLUEPRINT_COMPONENT ==
    [type |-> DEFAULT_BLUEPRINT_COMPONENT_TYPE,
     id |-> DEFAULT_COMPONENT.id,
     version |-> DEFAULT_COMPONENT.version,
     displayName |-> DEFAULT_COMPONENT.displayName,
     description |-> DEFAULT_COMPONENT.description,
     parameters |-> DEFAULT_COMPONENT.parameters,
     links |-> DEFAULT_COMPONENT.links,
     dependencies |-> <<>>,
     isLocked |-> FALSE,
     recreateOnFailure |-> FALSE]

DEFAULT_LIVE_SYSTEM_COMPONENT ==
    [type |-> DEFAULT_BLUEPRINT_COMPONENT.type,
     id |-> DEFAULT_BLUEPRINT_COMPONENT.id,
     version |-> DEFAULT_BLUEPRINT_COMPONENT.version,
     displayName |-> DEFAULT_BLUEPRINT_COMPONENT.displayName,
     description |-> DEFAULT_BLUEPRINT_COMPONENT.description,
     parameters |-> DEFAULT_BLUEPRINT_COMPONENT.parameters,
     links |-> DEFAULT_BLUEPRINT_COMPONENT.links,
     dependencies |-> DEFAULT_BLUEPRINT_COMPONENT.dependencies,
     isLocked |-> DEFAULT_BLUEPRINT_COMPONENT.isLocked,
     recreateOnFailure |-> DEFAULT_BLUEPRINT_COMPONENT.recreateOnFailure,
     status |-> "Unknown",
     provider |-> "Unknown"]

\* errors.map(error => `[Component: ${componentId.toString()}]${error}`)
addContextToErrors(componentId, errors) ==
    WithContext("Component", ComponentIdToString(componentId), errors)

isValidComponentFirstOnly(component) ==
    LET all == addContextToErrors(component.id, isValidId(component.id))
               \o addContextToErrors(component.id,
                                     isValidComponentType(component.type))
               \o addContextToErrors(component.id,
                                     isValidVersion(component.version))
               \o addContextToErrors(component.id,
                     IF isNonEmptyString(component.displayName) THEN <<>>
                     ELSE <<Err("Display name must be a non-empty string",
                                EmptyString)>>)
    IN  IF all = <<>> THEN <<>> ELSE <<Head(all)>>

isValidComponent(component) ==
    LET idErrors == addContextToErrors(component.id, isValidId(component.id))
        typeErrors == addContextToErrors(component.id,
                                         isValidComponentType(component.type))
        versionErrors == addContextToErrors(component.id,
                                            isValidVersion(component.version))
        displayNameErrors ==
            addContextToErrors(component.id,
                IF isNonEmptyString(component.displayName) THEN <<>>
                ELSE <<Err("Display name must be a non-empty string",
                           EmptyString)>>)
    IN  idErrors \o typeErrors \o versionErrors \o typeErrors
        \o displayNameErrors

isValidBlueprintComponent(component) ==
    isValidComponent([component EXCEPT !.dependencies = <<>>])

isValidLiveSystemComponent(component) == isValidBlueprintComponent(component)

----------------------------------------------------------------------------
(* Component, BlueprintComponent and LiveSystemComponent builders          *)

CompKinds == {"Component", "BlueprintComponent", "LiveSystemComponent"}
BlueprintKinds == {"BlueprintComponent", "LiveSystemComponent"}

Builders == {"b1", "b2"}

ValidKebab   == Kebab(<<"a">>)
ValidPascal  == Pascal(<<"A","p","i">>)
ValidVersion == [major |-> 1, minor |-> 0, patch |-> 0]
ValidComponentId == [value |-> ValidKebab]
StaleComponentId == [value |-> StaleKebab(<<"a">>, <<"M","y","_","S">>)]

ComponentIdInputs == {DEFAULT_COMPONENT_ID, ValidComponentId, StaleComponentId}
VersionInputs     == {DEFAULT_VERSION, ValidVersion}
DisplayNameInputs == {EmptyString, <<" ">>, <<"A">>}
DescriptionInputs == {<<"d">>}
ParametersInputs  == {CallerParameters}
LinksInputs       == {<<[id |-> ValidComponentId, parameters |-> "settings"]>>}
DependenciesInputs == {<<[id |-> ValidComponentId]>>}
ProviderInputs    == {"AWS"}

TypeInputs(k) ==
    IF k = "Component"
    THEN {DEFAULT_COMPONENT_TYPE,
          [DEFAULT_COMPONENT_TYPE EXCEPT !.name = ValidPascal]}
    ELSE {DEFAULT_BLUEPRINT_COMPONENT_TYPE,
          [DEFAULT_BLUEPRINT_COMPONENT_TYPE EXCEPT !.name = ValidPascal]}

ComponentDefault(k) ==
    CASE k = "Component" -> DEFAULT_COMPONENT
      [] k = "BlueprintComponent" -> DEFAULT_BLUEPRINT_COMPONENT
      [] OTHER -> DEFAULT_LIVE_SYSTEM_COMPONENT

ComponentErrors(k, c) ==
    CASE k = "Component" -> isValidComponent(c)
      [] k = "BlueprintComponent" -> isValidBlueprintComponent(c)
      [] OTHER -> isValidLiveSystemComponent(c)

\* a withX setter: assign one field of internalState and return the builder
ComponentSet(field, value) ==
    /\ kind \in CompKinds
    /\ comp' = [comp EXCEPT ![field] = value]
    /\ fresh' = fresh \ {"b1"}
    /\ last' = Call("with", "b1", <<>>, "ok", <<>>)
    /\ UNCHANGED <<kind, extVars, leafVars, aggVars>>

ComponentWithType(type) == ComponentSet("type", type)
ComponentWithId(id) == ComponentSet("id", id)
ComponentWithVersion(version) == ComponentSet("version", version)
ComponentWithDisplayName(displayName) == ComponentSet("displayName", displayName)
ComponentWithDescription(description) == ComponentSet("description", description)
ComponentWithParameters(parameters) == ComponentSet("parameters", parameters)
ComponentWithLinks(links) == ComponentSet("links", links)
ComponentWithDependencies(dependencies) ==
    ComponentSet("dependencies", dependencies)

ComponentWithIsLocked(value) ==
    kind \in BlueprintKinds /\ ComponentSet("isLocked", value)

ComponentWithRecreateOnFailure(value) ==
    kind \in BlueprintKinds /\ ComponentSet("recreateOnFailure", value)

ComponentWithProvider(value) ==
    kind = "LiveSystemComponent" /\ ComponentSet("provider", value)

ResetBase(c, d) ==
    [c EXCEPT !.type = d.type, !.id = d.id, !.version = d.version,
              !.displayName = d.displayName, !.description = d.description,
              !.parameters = d.parameters, !.links = d.links,
              !.dependencies = d.dependencies]

ComponentResetState(k, c) ==
    CASE k = "Component" -> ResetBase(c, DEFAULT_COMPONENT)
      [] k = "BlueprintComponent" ->
            [ResetBase(c, DEFAULT_BLUEPRINT_COMPONENT) EXCEPT
                !.isLocked = DEFAULT_BLUEPRINT_COMPONENT.isLocked,
                !.recreateOnFailure =
                    DEFAULT_BLUEPRINT_COMPONENT.recreateOnFailure]
      [] OTHER ->
            [ResetBase(c, DEFAULT_LIVE_SYSTEM_COMPONENT) EXCEPT
                !.isLocked = DEFAULT_LIVE_SYSTEM_COMPONENT.isLocked,
                !.provider = DEFAULT_LIVE_SYSTEM_COMPONENT.provider,
                !.recreateOnFailure =
                    DEFAULT_LIVE_SYSTEM_COMPONENT.recreateOnFailure]

ComponentReset ==
    /\ kind \in CompKinds
    /\ comp' = ComponentResetState(kind, comp)
    /\ fresh' = fresh \cup {"b1"}
    /\ last' = Call("reset", "b1", <<>>, "ok", <<>>)
    /\ UNCHANGED <<kind, extVars, leafVars, aggVars>>

ComponentBuild ==
    /\ kind \in CompKinds
    /\ LET validationErrors == ComponentErrors(kind, comp)
       IN  last' = Call("build", "b1", <<>>,
                        IF Len(validationErrors) > 0 THEN "SyntaxError"
                        ELSE "returned",
                        validationErrors)
    /\ UNCHANGED <<kind, extVars, leafVars, compVars, aggVars, fresh>>

NextComponent ==
    \/ \E v \in TypeInputs(kind) : ComponentWithType(v)
    \/ \E v \in ComponentIdInputs : ComponentWithId(v)
    \/ \E v \in VersionInputs : ComponentWithVersion(v)
    \/ \E v \in DisplayNameInputs : ComponentWithDisplayName(v)
    \/ \E v \in DescriptionInputs : ComponentWithDescription(v)
    \/ \E v \in ParametersInputs : ComponentWithParameters(v)
    \/ \E v \in LinksInputs : ComponentWithLinks(v)
    \/ \E v \in DependenciesInputs : ComponentWithDependencies(v)
    \/ \E v \in BOOLEAN : ComponentWithIsLocked(v)
    \/ \E v \in BOOLEAN : ComponentWithRecreateOnFailure(v)
    \/ \E v \in ProviderInputs : ComponentWithProvider(v)
    \/ ComponentReset
    \/ ComponentBuild

----------------------------------------------------------------------------
(* Composite identifiers                                                   *)

OwnerTypeToString(t) ==
    IF t = "Personal" THEN <<"P","e","r","s","o","n","a","l">>
    ELSE <<"O","r","g","a","n","i","z","a","t","i","o","n","a","l">>

DigitChar == <<"0","1","2","3","4","5","6","7","8","9">>

RECURSIVE NumberToString(_)
NumberToString(n) ==
    IF n < 0 THEN <<"-">> \o NumberToString(0 - n)
    ELSE IF n < 10 THEN <<DigitChar[n + 1]>>
    ELSE NumberToString(n \div 10) \o <<DigitChar[(n % 10) + 1]>>

\* `v${version.major}.${version.minor}.${version.patch}`
VersionToString(version) ==
    <<"v">> \o NumberToString(version.major) \o <<".">>
    \o NumberToString(version.minor) \o <<".">>
    \o NumberToString(version.patch)

\* Object.prototype.toString, used when an object defines no toString
ObjectToString ==
    <<"[","o","b","j","e","c","t"," ","O","b","j","e","c","t","]">>

\* The field "str" tells which toString closure the object carries:
\* "default" (() => ''), "built" (computed from the built object) or
\* "object" (none defined).
DEFAULT_BOUNDED_CONTEXT_ID ==
    [ownerType |-> "Personal", ownerId |-> DEFAULT_OWNER_ID,
     name |-> DEFAULT_KEBAB_CASE_STRING, str |-> "default"]

\* `${id.ownerType.toString()}/${id.ownerId.ownerIdValue}/${id.name.value}`
boundedContextIdToString(id) ==
    OwnerTypeToString(id.ownerType) \o <<"/">> \o id.ownerId.value
    \o <<"/">> \o id.name.value

BoundedContextIdToString(id) ==
    IF id.str = "default" THEN EmptyString ELSE boundedContextIdToString(id)

isValidBoundedContextId(value) ==
    LET ownerIdErrors == isValidOwnerId(value.ownerId.value)
        nameErrors == isValidKebabCaseString(value.name.value)
    IN  WithContext("Bounded Context Id: Owner Id error",
                    boundedContextIdToString(value), ownerIdErrors)
        \o WithContext("Bounded Context Id: Name error",
                       boundedContextIdToString(value), nameErrors)

DEFAULT_FRACTAL_ID ==
    [boundedContextId |-> DEFAULT_BOUNDED_CONTEXT_ID,
     name |-> DEFAULT_KEBAB_CASE_STRING,
     version |-> DEFAULT_VERSION, str |-> "default"]

FractalIdToString(id) ==
    IF id.str = "default" THEN EmptyString
    ELSE BoundedContextIdToString(id.boundedContextId) \o <<"/">>
         \o KebabToString(id.name) \o <<":">> \o VersionToString(id.version)

isValidFractalId(id) ==
    LET boundedContextIdErrors == isValidBoundedContextId(id.boundedContextId)
        nameErrors == isValidKebabCaseString(id.name.value)
        versionErrors == isValidVersion(id.version)
    IN  WithContext("Fractal Id: Bounded Context Id error",
                    FractalIdToString(id), boundedContextIdErrors)
        \o WithContext("Fractal Id: Name errors", FractalIdToString(id),
                       nameErrors)
        \o WithContext("Fractal Id: Version error", FractalIdToString(id),
                       versionErrors)

DEFAULT_LIVE_SYSTEM_ID ==
    [boundedContextId |-> DEFAULT_BOUNDED_CONTEXT_ID,
     name |-> DEFAULT_KEBAB_CASE_STRING, str |-> "object"]

LiveSystemIdToString(id) ==
    IF id.str = "object" THEN ObjectToString
    ELSE BoundedContextIdToString(id.boundedContextId) \o <<"/">>
         \o id.name.value

isValidLiveSystemId(id) ==
    LET boundedContextIdErrors == isValidBoundedContextId(id.boundedContextId)
        nameErrors == isValidKebabCaseString(id.name.value)
    IN  WithContext("Fractal Id: Bounded Context Id error",
                    LiveSystemIdToString(id), boundedContextIdErrors)
        \o WithContext("Fractal Id: Name errors", LiveSystemIdToString(id),
                       nameErrors)

ValidBoundedContextId ==
    [ownerType |-> "Personal", ownerId |-> [value |-> UuidA],
     name |-> ValidKebab, str |-> "built"]

ValidFractalId ==
    [boundedContextId |-> ValidBoundedContextId, name |-> ValidKebab,
     version |-> ValidVersion, str |-> "built"]

ValidLiveSystemId ==
    [boundedContextId |-> ValidBoundedContextId, name |-> ValidKebab,
     str |-> "built"]

\* a fractal id built without a version, a live system id in another
\* owner's bounded context whose owner id is no UUID
UnversionedFractalId == [ValidFractalId EXCEPT !.version = DEFAULT_VERSION]
ForeignLiveSystemId ==
    [ValidLiveSystemId EXCEPT
        !.boundedContextId.ownerId = [value |-> <<"o", "w", "n">>]]

FractalIdInputs == {DEFAULT_FRACTAL_ID, ValidFractalId, UnversionedFractalId}
LiveSystemIdInputs ==
    {DEFAULT_LIVE_SYSTEM_ID, ValidLiveSystemId, ForeignLiveSystemId}

----------------------------------------------------------------------------
(* Fractal and LiveSystem aggregate builders                               *)

AggKinds == {"Fractal", "LiveSystem"}

MaxComponents == 2

\* array references: the arrays of the two DEFAULT objects, and one array
\* per builder for the `internalState.components = []` branch
DefaultFractalComponents    == "DEFAULT_FRACTAL.components"
DefaultLiveSystemComponents == "DEFAULT_LIVE_SYSTEM.components"
Undefined == "undefined"
Refs == {DefaultFractalComponents, DefaultLiveSystemComponents} \cup Builders

DefaultLiveSystemParameters == "DEFAULT_LIVE_SYSTEM.parameters"

DEFAULT_ENVIRONMENT ==
    [id |-> [ownerType |-> "Personal", ownerId |-> DEFAULT_OWNER_ID,
             name |-> DEFAULT_KEBAB_CASE_STRING, str |-> "default"],
     parameters |-> "DEFAULT_ENVIRONMENT.parameters"]

DEFAULT_FRACTAL ==
    [id |-> DEFAULT_FRACTAL_ID,
     isPrivate |-> FALSE,
     description |-> EmptyString,
     components |-> DefaultFractalComponents]

DEFAULT_LIVE_SYSTEM ==
    [id |-> DEFAULT_LIVE_SYSTEM_ID,
     requesterId |-> EmptyString,
     fractalId |-> DEFAULT_FRACTAL_ID,
     description |-> EmptyString,
     status |-> "Unknown",
     statusMessage |-> EmptyString,
     components |-> DefaultLiveSystemComponents,
     genericProvider |-> "Unknown",
     parameters |-> DefaultLiveSystemParameters,
     environment |-> DEFAULT_ENVIRONMENT]

ValidBlueprintComponent ==
    [DEFAULT_BLUEPRINT_COMPONENT EXCEPT
        !.type = [DEFAULT_BLUEPRINT_COMPONENT_TYPE EXCEPT !.name = ValidPascal],
        !.id = ValidComponentId, !.version = ValidVersion,
        !.displayName = <<"A">>]

ValidLiveSystemComponent ==
    [DEFAULT_LIVE_SYSTEM_COMPONENT EXCEPT
        !.type = [DEFAULT_BLUEPRINT_COMPONENT_TYPE EXCEPT !.name = ValidPascal],
        !.id = ValidComponentId, !.version = ValidVersion,
        !.displayName = <<"A">>]

ComponentInputs(k) ==
    IF k \in {"Fractal", "FractalService"}
    THEN {ValidBlueprintComponent, DEFAULT_BLUEPRINT_COMPONENT}
    ELSE {ValidLiveSystemComponent, DEFAULT_LIVE_SYSTEM_COMPONENT}

\* the arrays a caller may pass to withComponents
ComponentArrays(k) ==
    UNION {[1..n -> ComponentInputs(k)] : n \in 0..MaxComponents}

\* the entity with its components reference replaced by the array's content
Resolve(entity, h) == [entity EXCEPT !.components = h[entity.components]]

RECURSIVE FlatMap(_, _, _)
FlatMap(k, components, i) ==
    IF i > Len(components) THEN <<>>
    ELSE (IF k = "Fractal" THEN isValidBlueprintComponent(components[i])
          ELSE isValidLiveSystemComponent(components[i]))
         \o FlatMap(k, components, i + 1)

isValidFractalSkipEmpty(fractal) ==
    isValidFractalId(fractal.id) \o FlatMap("Fractal", fractal.components, 1)

isValidFractal(fractal) ==
    LET idErrors == isValidFractalId(fractal.id)
        componentsErrors ==
            IF Len(fractal.components) = 0
            THEN WithContext("Fractal", FractalIdToString(fractal.id),
                     <<Err("components must not be empty", EmptyString)>>)
            ELSE FlatMap("Fractal", fractal.components, 1)
    IN  idErrors \o componentsErrors

isValidLiveSystemNoFractalId(liveSystem) ==
    LET idErrors == isValidLiveSystemId(liveSystem.id)
        componentsErrors ==
            IF Len(liveSystem.components) = 0
            THEN WithContext("Live System", LiveSystemIdToString(liveSystem.id),
                     <<Err("components must not be empty", EmptyString)>>)
            ELSE FlatMap("LiveSystem", liveSystem.components, 1)
    IN  idErrors \o componentsErrors

isValidLiveSystem(liveSystem) ==
    LET idErrors == isValidLiveSystemId(liveSystem.id)
        fractalIdErrors == isValidFractalId(liveSystem.fractalId)
        componentsErrors ==
            IF Len(liveSystem.components) = 0
            THEN WithContext("Live System", LiveSystemIdToString(liveSystem.id),
                     <<Err("components must not be empty", EmptyString)>>)
            ELSE FlatMap("LiveSystem", liveSystem.components, 1)
    IN  idErrors \o fractalIdErrors \o componentsErrors

Created(b) == builders[b] # Nothing
State(b)   == builders[b][1]

\* getFractalBuilder / getLiveSystemBuilder: internalState = {...DEFAULT}
\* ("b1" names the first builder the caller obtains, "b2" the second)
GetBuilder(b, default) ==
    /\ ~Created(b)
    /\ b = "b1" \/ Created("b1")
    /\ builders' = [builders EXCEPT ![b] = Some(default)]
    /\ fresh' = fresh \cup {b}
    /\ last' = Returned
    /\ UNCHANGED <<kind, extVars, leafVars, compVars, heap, built>>

getFractalBuilder(b) == kind = "Fractal" /\ GetBuilder(b, DEFAULT_FRACTAL)

\* the live-system scenario follows one builder
LiveSystemBuilders == {"b1"}

getLiveSystemBuilder(b) ==
    /\ kind = "LiveSystem"
    /\ b \in LiveSystemBuilders
    /\ GetBuilder(b, DEFAULT_LIVE_SYSTEM)

\* a withX setter that assigns one field of internalState
AggregateSet(b, field, value) ==
    /\ Created(b)
    /\ builders' = [builders EXCEPT ![b] = Some([State(b) EXCEPT ![field] = value])]
    /\ fresh' = fresh \ {b}
    /\ last' = Returned
    /\ UNCHANGED <<kind, extVars, leafVars, compVars, heap, built>>

\* withComponents / withComponent: create the array if missing, then push
AggregatePush(b, value) ==
    /\ Created(b)
    /\ LET ref == IF State(b).components = Undefined THEN b
                  ELSE State(b).components
           base == IF State(b).components = Undefined THEN <<>> ELSE heap[ref]
       IN  /\ Len(base) + Len(value) <= MaxComponents
           /\ builders' = [builders EXCEPT
                              ![b] = Some([State(b) EXCEPT !.components = ref])]
           /\ heap' = [heap EXCEPT ![ref] = base \o value]
    /\ fresh' = fresh \ {b}
    /\ last' = Returned
    /\ UNCHANGED <<kind, extVars, leafVars, compVars, built>>

\* the builders of a scenario: in the scenario of the services "b1" is the
\* builder whose build() returned the aggregate, used again between build()
\* and the call of deploy or destroy
IsFractalBuilder(b) ==
    \/ kind = "Fractal"
    \/ kind = "FractalService" /\ b = "b1" /\ service.pc = "idle"

IsLiveSystemBuilder(b) ==
    \/ kind = "LiveSystem"
    \/ kind = "LiveSystemService" /\ b = "b1" /\ service.pc = "idle"

FractalWithId(b, value) ==
    IsFractalBuilder(b) /\ AggregateSet(b, "id", value)

FractalWithIsPrivate(b, value) ==
    kind = "Fractal" /\ AggregateSet(b, "isPrivate", value)

FractalWithDescription(b, value) ==
    IsFractalBuilder(b) /\ AggregateSet(b, "description", value)

FractalWithComponents(b, value) == kind = "Fractal" /\ AggregatePush(b, value)

FractalWithComponent(b, value) ==
    IsFractalBuilder(b) /\ AggregatePush(b, <<value>>)

FractalResetStateKeepsId(s) ==
    [s EXCEPT !.isPrivate = DEFAULT_FRACTAL.isPrivate,
              !.description = DEFAULT_FRACTAL.description,
              !.components = DEFAULT_FRACTAL.components]

FractalResetState(s) ==
    [s EXCEPT !.id = DEFAULT_FRACTAL.id,
              !.isPrivate = DEFAULT_FRACTAL.isPrivate,
              !.description = DEFAULT_FRACTAL.description,
              !.components = DEFAULT_FRACTAL.components]

LiveSystemResetState(s) ==
    [s EXCEPT !.id = DEFAULT_LIVE_SYSTEM.id,
              !.requesterId = DEFAULT_LIVE_SYSTEM.requesterId,
              !.fractalId = DEFAULT_LIVE_SYSTEM.fractalId,
              !.description = DEFAULT_LIVE_SYSTEM.description,
              !.status = DEFAULT_LIVE_SYSTEM.status,
              !.statusMessage = DEFAULT_LIVE_SYSTEM.statusMessage,
              !.components = DEFAULT_LIVE_SYSTEM.components,
              !.genericProvider = DEFAULT_LIVE_SYSTEM.genericProvider]

AggregateReset(b, state) ==
    /\ Created(b)
    /\ builders' = [builders EXCEPT ![b] = Some(state)]
    /\ fresh' = fresh \cup {b}
    /\ last' = Returned
    /\ UNCHANGED <<kind, extVars, leafVars, compVars, heap, built>>

FractalReset(b) ==
    IsFractalBuilder(b) /\ AggregateReset(b, FractalResetState(State(b)))

\* build(): validate internalState, throw or return {...internalState}
AggregateBuild(b, validationErrors) ==
    /\ Created(b)
    /\ IF Len(validationErrors) > 0
       THEN /\ last' = Call("build", b, <<>>, "SyntaxError", validationErrors)
            /\ UNCHANGED built
       ELSE /\ last' = Call("build", b, <<>>, "returned", <<>>)
            /\ built' = Some([entity |-> State(b), by |-> b])
    /\ UNCHANGED <<kind, extVars, leafVars, compVars, heap, builders, fresh>>

FractalBuild(b) ==
    /\ kind = "Fractal"
    /\ Created(b)
    /\ AggregateBuild(b, isValidFractal(Resolve(State(b), heap)))

LiveSystemWithId(b, value) ==
    IsLiveSystemBuilder(b) /\ AggregateSet(b, "id", value)

LiveSystemWithFractalId(b, value) ==
    kind = "LiveSystem" /\ AggregateSet(b, "fractalId", value)

LiveSystemWithDescription(b, value) ==
    IsLiveSystemBuilder(b) /\ AggregateSet(b, "description", value)

LiveSystemWithComponents(b, value) ==
    kind = "LiveSystem" /\ AggregatePush(b, value)

LiveSystemWithComponent(b, value) ==
    IsLiveSystemBuilder(b) /\ AggregatePush(b, <<value>>)

LiveSystemWithGenericProvider(b, value) ==
    kind = "LiveSystem" /\ AggregateSet(b, "genericProvider", value)

LiveSystemWithParameters(b, parameters) ==
    kind = "LiveSystem" /\ AggregateSet(b, "parameters", parameters)

LiveSystemReset(b) ==
    IsLiveSystemBuilder(b) /\ AggregateReset(b, LiveSystemResetState(State(b)))

LiveSystemBuild(b) ==
    /\ kind = "LiveSystem"
    /\ Created(b)
    /\ AggregateBuild(b, isValidLiveSystem(Resolve(State(b), heap)))

NextFractal ==
    \E b \in Builders :
        \/ getFractalBuilder(b)
        \/ \E v \in FractalIdInputs : FractalWithId(b, v)
        \/ \E v \in BOOLEAN : FractalWithIsPrivate(b, v)
        \/ \E v \in DescriptionInputs : FractalWithDescription(b, v)
        \/ \E v \in ComponentArrays(kind) : FractalWithComponents(b, v)
        \/ \E v \in ComponentInputs(kind) : FractalWithComponent(b, v)
        \/ FractalReset(b)
        \/ FractalBuild(b)

NextLiveSystem ==
    \E b \in Builders :
        \/ getLiveSystemBuilder(b)
        \/ \E v \in LiveSystemIdInputs : LiveSystemWithId(b, v)
        \/ \E v \in FractalIdInputs : LiveSystemWithFractalId(b, v)
        \/ \E v \in DescriptionInputs : LiveSystemWithDescription(b, v)
        \/ \E v \in ComponentArrays(kind) : LiveSystemWithComponents(b, v)
        \/ \E v \in ComponentInputs(kind) : LiveSystemWithComponent(b, v)
        \/ \E v \in ProviderInputs : LiveSystemWithGenericProvider(b, v)
        \/ \E v \in ParametersInputs : LiveSystemWithParameters(b, v)
        \/ LiveSystemReset(b)
        \/ LiveSystemBuild(b)

NextAggregate == NextFractal \/ NextLiveSystem

----------------------------------------------------------------------------
(* Specifications                                                          *)

InitBuilders(kinds) ==
    /\ kind \in kinds
    /\ leafValue = EmptyString
    /\ leafBuilt = Nothing
    /\ comp = IF kind \in CompKinds THEN ComponentDefault(kind) ELSE <<>>
    /\ heap = [r \in Refs |-> <<>>]
    /\ builders = [b \in Builders |-> Nothing]
    /\ built = Nothing
    /\ fresh = IF kind \in CompKinds THEN {"b1"} ELSE {}
    /\ last = NoCall

InitWith(kinds) ==
    /\ InitBuilders(kinds)
    /\ pair = <<>>
    /\ idState = <<>>
    /\ versionState = <<>>
    /\ container = <<>>
    /\ service = <<>>

InitLeaf == InitWith(LeafKinds)
SpecLeaf == InitLeaf /\ [][NextLeaf]_vars

InitComponent == InitWith(CompKinds)
SpecComponent == InitComponent /\ [][NextComponent]_vars

InitAggregate == InitWith(AggKinds)
SpecAggregate == InitAggregate /\ [][NextAggregate]_vars

InitFractal == InitWith({"Fractal"})
SpecFractal == InitFractal /\ [][NextFractal]_vars
InitLiveSystem == InitWith({"LiveSystem"})
SpecLiveSystem == InitLiveSystem /\ [][NextLiveSystem]_vars

----------------------------------------------------------------------------
(* equals of the built identifiers                                         *)

\* A KebabCaseString object: "ref" is the identity of the object (what ===
\* compares), "shown" the value its builder holds now (what the closures
\* equals and toString read), "value" the copy taken by build().
KebabObject(ref, s, now) == [value |-> s, shown |-> now, ref |-> ref]

\* equals: (other) => internalState.value === other.value
KebabEquals(a, other) == a.shown = other.value

\* a.value === b.value, on two KebabCaseString objects
ComponentIdEquals(a, b) == a.value.ref = b.value.ref

BoundedContextIdEqualsNoOwner(a, b) ==
    a.ownerType = b.ownerType /\ a.name.value = b.name.value

BoundedContextIdEquals(a, b) ==
    /\ a.ownerType = b.ownerType
    /\ a.ownerId.value = b.ownerId.value
    /\ a.name.value = b.name.value

EnvironmentIdEquals(a, b) ==
    /\ a.ownerType = b.ownerType
    /\ a.ownerId.value = b.ownerId.value
    /\ a.name.value = b.name.value

FractalIdEquals(a, b) ==
    /\ BoundedContextIdEquals(a.boundedContextId, b.boundedContextId)
    /\ KebabEquals(a.name, b.name)
    /\ VersionEquals(a.version, b.version)

EqualsKinds == {"ComponentId", "BoundedContextId", "EnvironmentId", "FractalId"}

IdEquals(k, a, b) ==
    CASE k = "ComponentId" -> ComponentIdEquals(a, b)
      [] k = "BoundedContextId" -> BoundedContextIdEquals(a, b)
      [] k = "EnvironmentId" -> EnvironmentIdEquals(a, b)
      [] k = "FractalId" -> FractalIdEquals(a, b)

\* built identifiers: every constituent is valid
NameValues == {<<"m","y","-","s","v","c">>, <<"a","1","-","b","2">>}

KebabObjects ==
    {KebabObject(r, s, now) : r \in {"k1", "k2"}, s \in NameValues,
                              now \in NameValues}

BuiltComponentIds == {[value |-> k] : k \in KebabObjects}

BuiltBoundedContextIds ==
    {[ownerType |-> t, ownerId |-> [value |-> o],
      name |-> KebabObject("k1", s, s), str |-> "built"] :
        t \in {"Personal", "Organizational"}, o \in {UuidA, UuidB},
        s \in NameValues}

BuiltFractalIds ==
    {[boundedContextId |-> c, name |-> KebabObject("k2", s, now),
      version |-> v, str |-> "built"] :
        c \in {c \in BuiltBoundedContextIds :
                  c.ownerType = "Personal"
                  /\ c.name.value = <<"m","y","-","s","v","c">>},
        s \in NameValues, now \in NameValues,
        v \in {ValidVersion, [ValidVersion EXCEPT !.patch = 2]}}

BuiltIds(k) ==
    CASE k = "ComponentId" -> BuiltComponentIds
      [] k = "FractalId" -> BuiltFractalIds
      [] OTHER -> BuiltBoundedContextIds

\* one object has one content: two ids that hold the same KebabCaseString
\* object hold the same value
SameObjectSameContent(k, a, b) ==
    k = "ComponentId" => (a.value.ref = b.value.ref => a.value = b.value)

\* x.equals(y), x and y being the two identifiers in either order
Equals(x, y) ==
    /\ kind \in EqualsKinds
    /\ last' = Call("equals", x, <<>>,
                    IF IdEquals(kind, pair[x], pair[y]) THEN "true"
                    ELSE "false", <<>>)
    /\ UNCHANGED <<kind, leafVars, compVars, aggVars, fresh, extVars>>

\* the canonical string of an identifier
IdToString(k, id) ==
    CASE k = "ComponentId" -> ComponentIdToString(id)
      [] k = "FractalId" -> FractalIdToString(id)
      [] OTHER -> BoundedContextIdToString(id)

\* String.prototype.split and Number(...) of a decimal numeral
IndexOf(s, c) ==
    IF \E i \in DOMAIN s : s[i] = c
    THEN CHOOSE i \in DOMAIN s : s[i] = c /\ \A j \in 1..(i - 1) : s[j] # c
    ELSE 0

RECURSIVE Split(_, _)
Split(s, c) ==
    IF IndexOf(s, c) = 0 THEN <<s>>
    ELSE <<SubSeq(s, 1, IndexOf(s, c) - 1)>>
         \o Split(SubSeq(s, IndexOf(s, c) + 1, Len(s)), c)

RECURSIVE ParseNumber(_)
ParseNumber(s) ==
    IF s = <<>> THEN 0
    ELSE IF Head(s) = "-" THEN 0 - ParseNumber(Tail(s))
    ELSE 10 * ParseNumber(SubSeq(s, 1, Len(s) - 1))
         + (CHOOSE d \in 0..9 : DigitChar[d + 1] = s[Len(s)])

\* the objects the builders return for the constituents read back out of a
\* canonical string: the KebabCaseStrings are new objects
RebuiltKebab(s) == KebabObject("rebuilt", s, s)

RebuiltVersion(s) ==
    LET parts == Split(Tail(s), ".")
    IN  [major |-> ParseNumber(parts[1]), minor |-> ParseNumber(parts[2]),
         patch |-> ParseNumber(parts[3])]

RebuiltBoundedContextId(parts) ==
    [ownerType |-> IF parts[1] = OwnerTypeToString("Personal")
                   THEN "Personal" ELSE "Organizational",
     ownerId |-> [value |-> parts[2]],
     name |-> RebuiltKebab(parts[3]),
     str |-> "built"]

Rebuilt(k, s) ==
    CASE k = "ComponentId" -> [value |-> RebuiltKebab(s)]
      [] k = "FractalId" ->
            LET parts == Split(s, "/")
                tail == Split(parts[4], ":")
            IN  [boundedContextId |-> RebuiltBoundedContextId(parts),
                 name |-> RebuiltKebab(tail[1]),
                 version |-> RebuiltVersion(tail[2]),
                 str |-> "built"]
      [] OTHER -> RebuiltBoundedContextId(Split(s, "/"))

RoundTripKinds == {"ComponentId", "BoundedContextId", "FractalId"}

\* x.toString(), the identifier rebuilt from it, and equals between the two
RoundTrip(x) ==
    /\ kind \in RoundTripKinds
    /\ LET s == IdToString(kind, pair[x])
           rebuilt == Rebuilt(kind, s)
       IN  last' = Call("roundTrip", x, s,
                        IF IdEquals(kind, rebuilt, pair[x])
                           /\ IdEquals(kind, pair[x], rebuilt)
                        THEN "true" ELSE "false", <<>>)
    /\ UNCHANGED <<kind, leafVars, compVars, aggVars, fresh, extVars>>

NextEquals ==
    \/ Equals("a", "b")
    \/ Equals("b", "a")
    \/ RoundTrip("a")
    \/ RoundTrip("b")

InitEquals ==
    /\ InitBuilders(EqualsKinds)
    /\ \E a \in BuiltIds(kind), b \in BuiltIds(kind) :
          /\ SameObjectSameContent(kind, a, b)
          /\ pair = [a |-> a, b |-> b]
    /\ idState = <<>>
    /\ versionState = <<>>
    /\ container = <<>>
    /\ service = <<>>

SpecEquals == InitEquals /\ [][NextEquals]_vars

----------------------------------------------------------------------------
(* Version builder                                                         *)

NumberInputs == {-1, 0, 1, 2}

VersionCall(op, value, out) ==
    /\ last' = Call(op, "Version", value, out, <<>>)
    /\ UNCHANGED <<kind, leafVars, compVars, heap, builders, fresh>>
    /\ UNCHANGED <<pair, idState, container, service>>

\* withMajor assigns first and tests afterwards
VersionWithMajor(major) ==
    /\ kind = "Version"
    /\ versionState' = [versionState EXCEPT !.major = major]
    /\ VersionCall("withMajor", major, IF major < 0 THEN "RangeError" ELSE "ok")
    /\ UNCHANGED built

VersionWithMinor(minor) ==
    /\ kind = "Version"
    /\ versionState' = IF minor < 0 THEN versionState
                       ELSE [versionState EXCEPT !.minor = minor]
    /\ VersionCall("withMinor", minor, IF minor < 0 THEN "RangeError" ELSE "ok")
    /\ UNCHANGED built

VersionWithPatch(patch) ==
    /\ kind = "Version"
    /\ versionState' = IF patch < 0 THEN versionState
                       ELSE [versionState EXCEPT !.patch = patch]
    /\ VersionCall("withPatch", patch, IF patch < 0 THEN "RangeError" ELSE "ok")
    /\ UNCHANGED built

VersionReset ==
    /\ kind = "Version"
    /\ versionState' = DEFAULT_VERSION
    /\ VersionCall("reset", <<>>, "ok")
    /\ UNCHANGED built

VersionBuild ==
    /\ kind = "Version"
    /\ IF Len(isValidVersion(versionState)) > 0
       THEN VersionCall("build", <<>>, "SyntaxError") /\ UNCHANGED built
       ELSE VersionCall("build", <<>>, "returned")
            /\ built' = Some(versionState)
    /\ UNCHANGED versionState

NextVersion ==
    \/ \E n \in NumberInputs :
          VersionWithMajor(n) \/ VersionWithMinor(n) \/ VersionWithPatch(n)
    \/ VersionReset
    \/ VersionBuild

InitVersion ==
    /\ InitBuilders({"Version"})
    /\ versionState = DEFAULT_VERSION
    /\ pair = <<>>
    /\ idState = <<>>
    /\ container = <<>>
    /\ service = <<>>

SpecVersion == InitVersion /\ [][NextVersion]_vars

----------------------------------------------------------------------------
(* GenericParameters: getParametersInstance                                *)

\* `const container = {}`: an ordinary object. It has its own properties
\* ("own"), and a prototype ("proto", Object.prototype at first) whose
\* properties container[name] also finds. "latest" is the history of the
\* calls: for each key the value of its last push, or Undefined if the key
\* was never pushed or was removed since.
FieldNames == {"a", "b", "toString", "__proto__"}
OwnNames   == FieldNames \ {"__proto__"}
FieldValues == {"value_1", "value_2"}

\* the names every object inherits from Object.prototype, and what
\* container[name] gives for them
ObjectPrototypeNames == {"toString"}
ObjectPrototype == "Object.prototype"
Inherited == "native function"

EmptyContainer ==
    [own |-> [n \in OwnNames |-> Undefined],
     proto |-> ObjectPrototype,
     latest |-> [n \in FieldNames |-> Undefined]]

\* container[name]
ContainerGet(c, name) ==
    IF name = "__proto__" THEN c.proto
    ELSE IF c.own[name] # Undefined THEN c.own[name]
    ELSE IF name \in ObjectPrototypeNames THEN Inherited
    ELSE Undefined

\* container[key] = value: "__proto__" is the accessor that replaces the
\* prototype when it is given an object
ContainerSet(c, key, value) ==
    IF key = "__proto__" THEN [c EXCEPT !.proto = value]
    ELSE [c EXCEPT !.own[key] = value]

\* delete container[key]: removes an own property, if there is one
ContainerDelete(c, key) ==
    IF key = "__proto__" THEN c ELSE [c EXCEPT !.own[key] = Undefined]

\* Object.keys(container)
ObjectKeys(c) == {n \in OwnNames : c.own[n] # Undefined}

ParametersQuery(op, name, out) ==
    /\ kind = "Parameters"
    /\ last' = Call(op, "parameters", name, out, <<>>)
    /\ UNCHANGED <<kind, leafVars, compVars, aggVars, fresh, extVars>>

ParametersUpdate(op, name, next) ==
    /\ kind = "Parameters"
    /\ container' = next
    /\ last' = Call(op, "parameters", name, "ok", <<>>)
    /\ UNCHANGED <<kind, leafVars, compVars, aggVars, fresh>>
    /\ UNCHANGED <<pair, idState, versionState, service>>

getRequiredFieldByName(name) ==
    ParametersQuery("getRequiredFieldByName", name,
                    IF ContainerGet(container, name) = Undefined
                    THEN "Error" ELSE ContainerGet(container, name))

getOptionalFieldByName(name) ==
    ParametersQuery("getOptionalFieldByName", name,
                    IF ContainerGet(container, name) = Undefined
                    THEN "null" ELSE ContainerGet(container, name))

getAllFieldNames ==
    ParametersQuery("getAllFieldNames", <<>>, ObjectKeys(container))

push(key, value) ==
    ParametersUpdate("push", key,
        [ContainerSet(container, key, value) EXCEPT !.latest[key] = value])

remove(key) ==
    ParametersUpdate("remove", key,
        [ContainerDelete(container, key) EXCEPT !.latest[key] = Undefined])

NextParameters ==
    \/ \E n \in FieldNames :
          \/ getRequiredFieldByName(n)
          \/ getOptionalFieldByName(n)
          \/ remove(n)
          \/ \E v \in FieldValues : push(n, v)
    \/ getAllFieldNames

InitParameters ==
    /\ InitBuilders({"Parameters"})
    /\ container = EmptyContainer
    /\ service = <<>>
    /\ pair = <<>>
    /\ idState = <<>>
    /\ versionState = <<>>

SpecParameters == InitParameters /\ [][NextParameters]_vars

----------------------------------------------------------------------------
(* Builders of the composite identifiers                                   *)

\* getBoundedContextIdBuilder exists twice: bounded_context_id.ts, written
\* against the validators that return a boolean, and the later one whose
\* validators return the list of errors.
IdBuilderKinds ==
    {"BoundedContextIdBuilder", "BoundedContextIdBuilder (boolean)",
     "EnvironmentIdBuilder", "FractalIdBuilder", "LiveSystemIdBuilder"}
OwnedIdBuilderKinds ==
    {"BoundedContextIdBuilder", "BoundedContextIdBuilder (boolean)",
     "EnvironmentIdBuilder"}
NestedIdBuilderKinds == {"FractalIdBuilder", "LiveSystemIdBuilder"}

DEFAULT_ENVIRONMENT_ID == DEFAULT_ENVIRONMENT.id

DefaultId(k) ==
    CASE k = "EnvironmentIdBuilder" -> DEFAULT_ENVIRONMENT_ID
      [] k = "FractalIdBuilder" -> DEFAULT_FRACTAL_ID
      [] k = "LiveSystemIdBuilder" -> DEFAULT_LIVE_SYSTEM_ID
      [] OTHER -> DEFAULT_BOUNDED_CONTEXT_ID

\* `${id.ownerType.toString()}/${id.ownerId.value}/${id.name.value}`
environmentIdToString(id) ==
    OwnerTypeToString(id.ownerType) \o <<"/">> \o id.ownerId.value
    \o <<"/">> \o id.name.value

isValidEnvironmentIdNameOnly(value) ==
    WithContext("Environment Id", environmentIdToString(value),
                isValidKebabCaseString(KebabToString(value.name)))
isValidEnvironmentId(value) ==
    LET ownerIdErrors ==
            WithContext("Environment Id", environmentIdToString(value),
                        isValidOwnerId(value.ownerId.value))
        nameErrors ==
            WithContext("Environment Id", environmentIdToString(value),
                        isValidKebabCaseString(KebabToString(value.name)))
    IN  ownerIdErrors \o nameErrors

isValidEnvironment(environment) == isValidEnvironmentId(environment.id)

\* the validators that return a boolean
isValidOwnerIdBoolean(value) == MatchesUuid(value)
isValidKebabCaseStringBoolean(value) == MatchesKebabCase(value)

\* bounded_context_id.ts
isValidBoundedContextIdBoolean(value) ==
    isValidOwnerIdBoolean(value.ownerId.value)
    /\ isValidKebabCaseStringBoolean(value.name.value)

\* the errors for which build() throws
IdValidationErrors(k, id) ==
    CASE k = "BoundedContextIdBuilder" -> isValidBoundedContextId(id)
      [] k = "BoundedContextIdBuilder (boolean)" ->
            IF ~isValidBoundedContextIdBoolean(id)
            THEN <<Err("Bounded Context ID is invalid", EmptyString)>>
            ELSE <<>>
      [] k = "EnvironmentIdBuilder" -> isValidEnvironmentId(id)
      [] k = "FractalIdBuilder" -> isValidFractalId(id)
      [] k = "LiveSystemIdBuilder" -> isValidLiveSystemId(id)

\* the object build() returns: the fields of internalState and, but for
\* bounded_context_id.ts, the closures of a built id
IdBuilt(k, id) ==
    IF k = "BoundedContextIdBuilder (boolean)" THEN id
    ELSE [id EXCEPT !.str = "built"]

OwnerTypeInputs == {"Personal", "Organizational"}
OwnerIdInputs ==
    {DEFAULT_OWNER_ID, [value |-> UuidA], [value |-> <<"o", "w", "n">>]}
IdNameInputs ==
    {DEFAULT_KEBAB_CASE_STRING, ValidKebab,
     StaleKebab(<<"a">>, <<"M","y","_","S">>)}
BoundedContextIdInputs ==
    {DEFAULT_BOUNDED_CONTEXT_ID, ValidBoundedContextId,
     ForeignLiveSystemId.boundedContextId}

IdCall(op, value, out, errs) ==
    /\ last' = Call(op, kind, value, out, errs)
    /\ UNCHANGED <<kind, leafVars, compVars, heap, builders, fresh>>
    /\ UNCHANGED <<pair, versionState, container, service>>

IdWithOwnerType(ownerType) ==
    /\ kind \in OwnedIdBuilderKinds
    /\ idState' = [idState EXCEPT !.ownerType = ownerType]
    /\ IdCall("withOwnerType", ownerType, "builder", <<>>)
    /\ UNCHANGED built

IdWithOwnerId(ownerId) ==
    /\ kind \in OwnedIdBuilderKinds
    /\ idState' = [idState EXCEPT !.ownerId = ownerId]
    /\ IdCall("withOwnerId", ownerId, "builder", <<>>)
    /\ UNCHANGED built

IdWithName(name) ==
    /\ kind \in IdBuilderKinds
    /\ idState' = [idState EXCEPT !.name = name]
    /\ IdCall("withName", name, "builder", <<>>)
    /\ UNCHANGED built

IdWithBoundedContextId(value) ==
    /\ kind \in NestedIdBuilderKinds
    /\ idState' = [idState EXCEPT !.boundedContextId = value]
    /\ IdCall("withBoundedContextId", value, "builder", <<>>)
    /\ UNCHANGED built

IdWithVersion(value) ==
    /\ kind = "FractalIdBuilder"
    /\ idState' = [idState EXCEPT !.version = value]
    /\ IdCall("withVersion", value, "builder", <<>>)
    /\ UNCHANGED built

\* reset assigns the default of every field but the closures
IdReset ==
    /\ kind \in IdBuilderKinds
    /\ idState' = [DefaultId(kind) EXCEPT !.str = idState.str]
    /\ IdCall("reset", <<>>, "builder", <<>>)
    /\ UNCHANGED built

IdBuild ==
    /\ kind \in IdBuilderKinds
    /\ LET validationErrors == IdValidationErrors(kind, idState)
       IN  IF Len(validationErrors) > 0
           THEN /\ IdCall("build", <<>>, "SyntaxError", validationErrors)
                /\ UNCHANGED built
           ELSE /\ IdCall("build", <<>>, "returned", <<>>)
                /\ built' = Some(IdBuilt(kind, idState))
    /\ UNCHANGED idState

NextIdBuilder ==
    \/ \E t \in OwnerTypeInputs : IdWithOwnerType(t)
    \/ \E o \in OwnerIdInputs : IdWithOwnerId(o)
    \/ \E n \in IdNameInputs : IdWithName(n)
    \/ \E b \in BoundedContextIdInputs : IdWithBoundedContextId(b)
    \/ \E v \in VersionInputs : IdWithVersion(v)
    \/ IdReset
    \/ IdBuild

InitIdBuilder ==
    /\ InitBuilders(IdBuilderKinds)
    /\ idState = DefaultId(kind)
    /\ pair = <<>>
    /\ versionState = <<>>
    /\ container = <<>>
    /\ service = <<>>

SpecIdBuilder == InitIdBuilder /\ [][NextIdBuilder]_vars

----------------------------------------------------------------------------
(* FractalService and LiveSystemService: deploy and destroy                *)

\* The transport is superagent. A request is sent when it is awaited or
\* given a handler; its promise resolves with the response when the status
\* is 2xx and rejects otherwise: with an error that carries the response
\* when the server answered, with an error that carries none when the
\* request failed on the network.
ServiceKinds == {"FractalService", "LiveSystemService"}
Answers == {"200", "204", "404", "500", "no response"}
IsOk(answer) == answer \in {"200", "204"}
HasResponse(answer) == answer # "no response"

\* String.prototype.replace(':', '/'): the first occurrence only
RECURSIVE ReplaceFirstColon(_)
ReplaceFirstColon(s) ==
    IF s = <<>> THEN <<>>
    ELSE IF Head(s) = ":" THEN <<"/">> \o Tail(s)
    ELSE <<Head(s)>> \o ReplaceFirstColon(Tail(s))

\* `${FRACTAL_API_URL}/blueprints/${fractal.id.toString().replace(':', '/')}`
fractalUrl(id) ==
    [collection |-> "blueprints",
     path |-> ReplaceFirstColon(FractalIdToString(id))]

\* `${FRACTAL_API_URL}/livesystems` and `.../livesystems/${id.toString()}`
liveSystemsUrl == [collection |-> "livesystems", path |-> <<>>]
liveSystemUrl(id) ==
    [collection |-> "livesystems", path |-> LiveSystemIdToString(id)]

\* parameters.toMap(): ({...container}), a copy of the container
toMap(parameters) == [copyOf |-> parameters]

\* the wire form of one component; the input is read, never assigned
WireLinksNoSettings(links) ==
    [i \in DOMAIN links |->
        [componentId |-> KebabToString(links[i].id.value)]]
WireLinks(links) ==
    [i \in DOMAIN links |->
        [componentId |-> KebabToString(links[i].id.value),
         settings |-> toMap(links[i].parameters)]]
WireDependencies(dependencies) ==
    [i \in DOMAIN dependencies |-> KebabToString(dependencies[i].id.value)]
WireComponent(c) ==
    [component |-> c,
     type |-> ObjectToString,
     id |-> KebabToString(c.id.value),
     version |-> VersionToString(c.version),
     parameters |-> toMap(c.parameters),
     dependencies |-> WireDependencies(c.dependencies),
     links |-> WireLinks(c.links)]

\* components.reduce((acc, c) => { acc[id] = ...; return acc }, {}): for
\* each id the last component that carries it
BlueprintMap(components) ==
    LET ids == {KebabToString(components[i].id.value) :
                    i \in DOMAIN components}
        Last(id) ==
            CHOOSE i \in DOMAIN components :
                /\ KebabToString(components[i].id.value) = id
                /\ \A j \in DOMAIN components :
                      KebabToString(components[j].id.value) = id => j <= i
    IN  [id \in ids |-> WireComponent(components[Last(id)])]

\* The body of the write request, and the components array after the body
\* was computed: map and the spread build new objects.
SerializeFractalInPlace(fractal, components) ==
    [body |-> [description |-> fractal.description,
               isPrivate |-> fractal.isPrivate,
               components |->
                   [i \in DOMAIN components |-> WireComponent(components[i])]],
     components |->
         [i \in DOMAIN components |->
             [components[i] EXCEPT !.links = <<>>, !.dependencies = <<>>]]]
SerializeFractal(fractal, components) ==
    [body |-> [description |-> fractal.description,
               isPrivate |-> fractal.isPrivate,
               components |->
                   [i \in DOMAIN components |-> WireComponent(components[i])]],
     components |-> components]

SerializeLiveSystem(liveSystem, components) ==
    [body |-> [liveSystemId |-> LiveSystemIdToString(liveSystem.id),
               fractalId |-> FractalIdToString(liveSystem.fractalId),
               description |-> liveSystem.description,
               provider |-> liveSystem.genericProvider,
               blueprintMap |-> BlueprintMap(components),
               parameters |-> toMap(liveSystem.parameters),
               environment |->
                   [id |-> [type |-> liveSystem.environment.id.ownerType,
                            ownerId |-> liveSystem.environment.id.ownerId.value,
                            shortName |-> liveSystem.environment.id.name],
                    parameters |-> toMap(liveSystem.environment.parameters)]],
     components |-> components]

Request(method, url, body) == [method |-> method, url |-> url, body |-> body]

\* pc: "idle" before the call, "get" / "write" / "post" / "delete" while
\* that request is in flight, "done" afterwards. promise is the promise the
\* call returned. logged counts the console.error calls, unhandled the
\* rejections no handler is attached to. asBuilt is the aggregate as build()
\* returned it.
IdleService(asBuilt) ==
    [asBuilt |-> asBuilt, pc |-> "idle", op |-> "none", requests |-> <<>>, answers |-> <<>>,
     promise |-> "none", logged |-> 0, unhandled |-> 0]

\* build() returns deploy and destroy as closures over internalState of the
\* builder, not over the returned copy: at the time of the call they hand the
\* service whatever the builder holds then
Aggregate == builders[built[1].by][1]
AggregateComponents == heap[Aggregate.components]

ServiceStep(next) ==
    /\ service' = next
    /\ UNCHANGED <<kind, leafVars, compVars, builders, built, fresh, last>>
    /\ UNCHANGED <<pair, idState, versionState, container>>

\* deployFractal up to the await of the GET request
deployFractal ==
    /\ kind = "FractalService"
    /\ service.pc = "idle"
    /\ ServiceStep([service EXCEPT
            !.pc = "get", !.op = "deploy", !.promise = "pending",
            !.requests = <<Request("GET", fractalUrl(Aggregate.id), <<>>)>>])
    /\ UNCHANGED heap

\* deployFractal after the await: a rejected GET rejects the call; otherwise
\* the write request is sent with a catch handler and the call returns
\* without waiting for it
deployFractalGetAnswered(answer) ==
    /\ kind = "FractalService"
    /\ service.pc = "get"
    /\ IF IsOk(answer)
       THEN LET s == SerializeFractal(Aggregate, AggregateComponents)
            IN  /\ ServiceStep([service EXCEPT
                        !.pc = "write", !.promise = "resolved",
                        !.answers = Append(@, answer),
                        !.requests = Append(@,
                            Request(IF answer = "200" THEN "PUT" ELSE "POST",
                                    fractalUrl(Aggregate.id), s.body))])
                /\ heap' = [heap EXCEPT ![Aggregate.components] = s.components]
       ELSE /\ ServiceStep([service EXCEPT
                    !.pc = "done", !.promise = "rejected",
                    !.answers = Append(@, answer)])
            /\ UNCHANGED heap

\* .catch(e => console.error(e.message, e.response.text)) of the write:
\* e.response is undefined when the error carries no response, and the
\* handler throws TypeError before it logs
deployFractalWriteAnswered(answer) ==
    /\ kind = "FractalService"
    /\ service.pc = "write"
    /\ ServiceStep([service EXCEPT
            !.pc = "done", !.answers = Append(@, answer),
            !.logged = IF ~IsOk(answer) /\ HasResponse(answer)
                       THEN @ + 1 ELSE @,
            !.unhandled = IF ~IsOk(answer) /\ ~HasResponse(answer)
                          THEN @ + 1 ELSE @])
    /\ UNCHANGED heap

\* deployLiveSystem up to the await of the POST request
deployLiveSystem ==
    /\ kind = "LiveSystemService"
    /\ service.pc = "idle"
    /\ LET s == SerializeLiveSystem(Aggregate, AggregateComponents)
       IN  /\ ServiceStep([service EXCEPT
                   !.pc = "post", !.op = "deploy", !.promise = "pending",
                   !.requests = <<Request("POST", liveSystemsUrl, s.body)>>])
           /\ heap' = [heap EXCEPT ![Aggregate.components] = s.components]

\* the awaited promise is the one catch returns: it rejects when the
\* handler throws
deployLiveSystemAnswered(answer) ==
    /\ kind = "LiveSystemService"
    /\ service.pc = "post"
    /\ ServiceStep([service EXCEPT
            !.pc = "done", !.answers = Append(@, answer),
            !.logged = IF ~IsOk(answer) /\ HasResponse(answer)
                       THEN @ + 1 ELSE @,
            !.promise = IF ~IsOk(answer) /\ ~HasResponse(answer)
                        THEN "rejected" ELSE "resolved"])
    /\ UNCHANGED heap

destroyFractal ==
    /\ kind = "FractalService"
    /\ service.pc = "idle"
    /\ ServiceStep([service EXCEPT
            !.pc = "delete", !.op = "destroy", !.promise = "pending",
            !.requests =
                <<Request("DELETE", fractalUrl(Aggregate.id), <<>>)>>])
    /\ UNCHANGED heap

destroyLiveSystem ==
    /\ kind = "LiveSystemService"
    /\ service.pc = "idle"
    /\ ServiceStep([service EXCEPT
            !.pc = "delete", !.op = "destroy", !.promise = "pending",
            !.requests =
                <<Request("DELETE", liveSystemUrl(Aggregate.id), <<>>)>>])
    /\ UNCHANGED heap

\* destroy awaits the DELETE request and has no handler
destroyAnswered(answer) ==
    /\ kind \in ServiceKinds
    /\ service.pc = "delete"
    /\ ServiceStep([service EXCEPT
            !.pc = "done", !.answers = Append(@, answer),
            !.promise = IF IsOk(answer) THEN "resolved" ELSE "rejected"])
    /\ UNCHANGED heap

NextService ==
    \/ deployFractal
    \/ \E a \in Answers : deployFractalGetAnswered(a)
    \/ \E a \in Answers : deployFractalWriteAnswered(a)
    \/ deployLiveSystem
    \/ \E a \in Answers : deployLiveSystemAnswered(a)
    \/ destroyFractal
    \/ destroyLiveSystem
    \/ \E a \in Answers : destroyAnswered(a)

\* the aggregates handed to the services: built, hence valid
LinkedComponent(c) ==
    [c EXCEPT !.id = [value |-> Kebab(<<"b">>)],
              !.links = <<[id |-> ValidComponentId, parameters |-> "settings"]>>,
              !.dependencies = <<[id |-> ValidComponentId]>>]

BuiltComponentArrays(c) ==
    UNION {[1..n -> {c, LinkedComponent(c)}] : n \in 1..MaxComponents}

BuiltFractals ==
    {[DEFAULT_FRACTAL EXCEPT !.id = ValidFractalId, !.isPrivate = p,
                             !.description = d, !.components = "b1"] :
        p \in BOOLEAN, d \in {EmptyString, <<"d">>}}

BuiltLiveSystems ==
    {[DEFAULT_LIVE_SYSTEM EXCEPT
         !.id = ValidLiveSystemId, !.fractalId = ValidFractalId,
         !.description = d, !.genericProvider = p, !.components = "b1"] :
        p \in {"AWS", "GCP"}, d \in {EmptyString, <<"d">>}}

InitService ==
    /\ kind \in ServiceKinds
    /\ leafValue = EmptyString
    /\ leafBuilt = Nothing
    /\ comp = <<>>
    /\ fresh = {}
    /\ last = NoCall
    /\ \E e \in IF kind = "FractalService" THEN BuiltFractals
                ELSE BuiltLiveSystems :
          built = Some([entity |-> e, by |-> "b1"])
    /\ \E a \in BuiltComponentArrays(IF kind = "FractalService"
                                     THEN ValidBlueprintComponent
                                     ELSE ValidLiveSystemComponent) :
          heap = [r \in Refs |-> IF r = "b1" THEN a ELSE <<>>]
    /\ builders = [b \in Builders |->
                       IF b = "b1" THEN Some(built[1].entity) ELSE Nothing]
    /\ pair = <<>>
    /\ idState = <<>>
    /\ versionState = <<>>
    /\ container = <<>>
    /\ service = IdleService(Resolve(built[1].entity, heap))

SpecService == InitService /\ [][NextService]_vars

\* the builder that built the aggregate is used again, at any moment
NextBuilderReused ==
    \/ \E v \in FractalIdInputs : FractalWithId("b1", v)
    \/ \E v \in DescriptionInputs : FractalWithDescription("b1", v)
    \/ \E v \in ComponentInputs(kind) : FractalWithComponent("b1", v)
    \/ FractalReset("b1")
    \/ \E v \in LiveSystemIdInputs : LiveSystemWithId("b1", v)
    \/ \E v \in DescriptionInputs : LiveSystemWithDescription("b1", v)
    \/ \E v \in ComponentInputs(kind) : LiveSystemWithComponent("b1", v)
    \/ LiveSystemReset("b1")

SpecLifecycle == InitService /\ [][NextService \/ NextBuilderReused]_vars

----------------------------------------------------------------------------
(* Built components and their parameter containers                         *)

\* the variables that hold a built component, and the GenericParameters
\* instances of the scenario: the one DEFAULT_COMPONENT.parameters is, made
\* once when the module is loaded, and one the caller made
Holders == {"x", "y"}
ParameterInstances == {DefaultComponentParameters, CallerParameters}
HeldKeys == {"a"}
HeldValues == {"value_1"}

ValidComponentType == [DEFAULT_COMPONENT_TYPE EXCEPT !.name = ValidPascal]

\* getComponentBuilder(): internalState = {...DEFAULT_COMPONENT}
getComponentBuilder ==
    /\ kind = "Component" /\ pair # <<>>
    /\ comp' = DEFAULT_COMPONENT
    /\ fresh' = fresh \cup {"b1"}
    /\ last' = Call("getComponentBuilder", "b1", <<>>, "ok", <<>>)
    /\ UNCHANGED <<kind, extVars, leafVars, aggVars>>

\* h = builder.build(), when build() returns: {...internalState}, whose
\* parameters is the instance internalState refers to. "pushed" records the
\* keys pushed and not removed again through h.parameters
ComponentBuildHeld(h) ==
    /\ kind = "Component" /\ pair # <<>>
    /\ Len(isValidComponent(comp)) = 0
    /\ pair' = [pair EXCEPT ![h] = Some([component |-> comp, pushed |-> {}])]
    /\ last' = Call("build", "b1", h, "returned", <<>>)
    /\ UNCHANGED <<kind, leafVars, compVars, aggVars, fresh>>
    /\ UNCHANGED <<idState, versionState, container, service>>

HeldParametersUpdate(op, h, key, next, pushed) ==
    /\ kind = "Component" /\ pair # <<>>
    /\ pair[h] # Nothing
    /\ container' = [container EXCEPT ![pair[h][1].component.parameters] = next]
    /\ pair' = [pair EXCEPT ![h][1].pushed = pushed]
    /\ last' = Call(op, h, key, "ok", <<>>)
    /\ UNCHANGED <<kind, leafVars, compVars, aggVars, fresh>>
    /\ UNCHANGED <<idState, versionState, service>>

HeldParameters(h) == container[pair[h][1].component.parameters]

\* h.parameters.push(key, value)
HeldPush(h, key, value) ==
    /\ pair # <<>> /\ pair[h] # Nothing
    /\ HeldParametersUpdate("push", h, key,
            ContainerSet(HeldParameters(h), key, value),
            pair[h][1].pushed \cup {key})

\* h.parameters.remove(key)
HeldRemove(h, key) ==
    /\ pair # <<>> /\ pair[h] # Nothing
    /\ HeldParametersUpdate("remove", h, key,
            ContainerDelete(HeldParameters(h), key),
            pair[h][1].pushed \ {key})

NextHeld ==
    \/ getComponentBuilder
    \/ ComponentWithType(ValidComponentType)
    \/ ComponentWithId(ValidComponentId)
    \/ ComponentWithVersion(ValidVersion)
    \/ ComponentWithDisplayName(<<"A">>)
    \/ ComponentWithParameters(CallerParameters)
    \/ ComponentReset
    \/ ComponentBuild
    \/ \E h \in Holders : ComponentBuildHeld(h)
    \/ \E h \in Holders, k \in HeldKeys, v \in HeldValues : HeldPush(h, k, v)
    \/ \E h \in Holders, k \in HeldKeys : HeldRemove(h, k)

InitHeld ==
    /\ InitBuilders({"Component"})
    /\ pair = [h \in Holders |-> Nothing]
    /\ container = [p \in ParameterInstances |-> EmptyContainer]
    /\ idState = <<>>
    /\ versionState = <<>>
    /\ service = <<>>

SpecHeld == InitHeld /\ [][NextHeld]_vars

----------------------------------------------------------------------------
(* The whole program: every builder, equals, the container, the services   *)

Init ==
    \/ InitWith(LeafKinds \cup CompKinds \cup AggKinds)
    \/ InitEquals
    \/ InitVersion
    \/ InitParameters
    \/ InitIdBuilder
    \/ InitService

Next ==
    \/ NextLeaf
    \/ NextComponent
    \/ NextAggregate
    \/ NextEquals
    \/ NextVersion
    \/ NextParameters
    \/ NextIdBuilder
    \/ NextService

Spec == Init /\ [][Next]_vars

----------------------------------------------------------------------------
(* Properties                                                              *)

\* validity of the values, stated on the fields themselves
VersionIsSet(v) == <<v.major, v.minor, v.patch>> # <<0, 0, 0>>

BoundedContextIdIsValid(id) ==
    MatchesUuid(id.ownerId.value) /\ MatchesKebabCase(id.name.value)

FractalIdIsValid(id) ==
    /\ BoundedContextIdIsValid(id.boundedContextId)
    /\ MatchesKebabCase(id.name.value)
    /\ VersionIsSet(id.version)

LiveSystemIdIsValid(id) ==
    BoundedContextIdIsValid(id.boundedContextId)
    /\ MatchesKebabCase(id.name.value)

InvalidFields(c) ==
    {f \in {"id"} : ~MatchesKebabCase(KebabToString(c.id.value))}
    \cup {f \in {"type"} : ~MatchesPascalCase(c.type.name.value)}
    \cup {f \in {"version"} : ~VersionIsSet(c.version)}
    \cup {f \in {"displayName"} : Trim(c.displayName) = EmptyString}

ComponentIsValid(c) == InvalidFields(c) = {}

AllComponentsValid(components) ==
    \A i \in DOMAIN components : ComponentIsValid(components[i])

\* the field an error message talks about
FieldOf(error) ==
    IF \E i \in DOMAIN error.ctx : error.ctx[i].label = "Component Id"
    THEN "id"
    ELSE IF \E i \in DOMAIN error.ctx : error.ctx[i].label = "Component Type"
    THEN "type"
    ELSE IF error.text = "Version must be initialized" THEN "version"
    ELSE IF error.text = "Display name must be a non-empty string"
    THEN "displayName"
    ELSE "other"

FieldsMentioned(errors) == {FieldOf(errors[i]) : i \in DOMAIN errors}

BuildBy(b) == last.op = "build" /\ last.who = b

\* C1: build() on a builder on which no field was set since it was created
\* or reset throws SyntaxError and returns nothing, for the Component,
\* BlueprintComponent, LiveSystemComponent, Fractal and LiveSystem builders.
C1_UnconfiguredBuildThrows ==
    \A b \in Builders :
        (BuildBy(b) /\ b \in fresh) => last.out = "SyntaxError"

C1_Witness ==
    /\ kind = "Fractal"
    /\ BuildBy("b1") /\ "b1" \in fresh
    /\ last.out = "SyntaxError"
    /\ heap[State("b1").components] # <<>>

\* the steps of one builder
ResetStep(b) == FractalReset(b) \/ LiveSystemReset(b)

PushStep(b) ==
    \/ \E v \in ComponentArrays(kind) :
          FractalWithComponents(b, v) \/ LiveSystemWithComponents(b, v)
    \/ \E v \in ComponentInputs(kind) :
          FractalWithComponent(b, v) \/ LiveSystemWithComponent(b, v)

CreateStep(b) == getFractalBuilder(b) \/ getLiveSystemBuilder(b)

FractalMutatorStep(b) ==
    \/ \E v \in FractalIdInputs : FractalWithId(b, v)
    \/ \E v \in BOOLEAN : FractalWithIsPrivate(b, v)
    \/ \E v \in DescriptionInputs : FractalWithDescription(b, v)
    \/ \E v \in ComponentArrays(kind) : FractalWithComponents(b, v)
    \/ \E v \in ComponentInputs(kind) : FractalWithComponent(b, v)
    \/ FractalReset(b)

\* the state of a builder that was just created, as the entity it describes
PristineState ==
    IF kind = "Fractal"
    THEN [DEFAULT_FRACTAL EXCEPT !.components = <<>>]
    ELSE [DEFAULT_LIVE_SYSTEM EXCEPT !.components = <<>>]

\* C2: reset() restores every field of a Fractal or LiveSystem builder to
\* its default: afterwards the components list is empty and the parameters
\* are the default container, as in a newly created builder.
C2_ResetRestoresDefaults ==
    [][\A b \in Builders :
          ResetStep(b) =>
              [builders'[b][1] EXCEPT
                  !.components = heap'[builders'[b][1].components]]
              = PristineState]_vars

\* C3: no later call on the builder that produced a built Fractal changes
\* the built Fractal's id, description, isPrivate or components list.
C3_BuiltFractalFrozen ==
    [][\A b \in Builders :
          (built # Nothing /\ built[1].by = b /\ FractalMutatorStep(b))
          => /\ built' = built
             /\ heap'[built[1].entity.components]
                = heap[built[1].entity.components]]_vars

\* C4: builders are isolated: a new builder starts with an empty components
\* list, and pushing components through one builder leaves the components
\* of every other builder as they were.
C4_BuildersIsolated ==
    [][\A b \in Builders :
          /\ CreateStep(b) => heap'[builders'[b][1].components] = <<>>
          /\ PushStep(b) =>
                \A c \in Builders \ {b} :
                    Created(c) =>
                        heap'[builders'[c][1].components]
                        = heap[builders[c][1].components]]_vars


\* the entity a builder describes, with the content of its components array
Described(b) == Resolve(State(b), heap)

\* C5: Fractal build() throws SyntaxError with 'components must not be
\* empty' when the components list is empty, and returns a Fractal when the
\* id is valid, the list is non-empty and every component in it is valid.
C5_FractalBuildValidates ==
    \A b \in Builders :
        (kind = "Fractal" /\ BuildBy(b)) =>
            /\ Described(b).components = <<>> =>
                  /\ last.out = "SyntaxError"
                  /\ \E i \in DOMAIN last.errs :
                        last.errs[i].text = "components must not be empty"
            /\ ( /\ FractalIdIsValid(Described(b).id)
                 /\ Described(b).components # <<>>
                 /\ AllComponentsValid(Described(b).components) )
               => last.out = "returned"

C5_Witness ==
    /\ kind = "Fractal" /\ BuildBy("b2")
    /\ last.out = "returned"
    /\ Len(Described("b2").components) = MaxComponents

\* C6: LiveSystem build() returns only if id and fractalId are valid and
\* the components list is non-empty with every component valid; in every
\* other case it throws SyntaxError.
C6_LiveSystemBuildValidates ==
    \A b \in Builders :
        (kind = "LiveSystem" /\ BuildBy(b)) =>
            /\ last.out \in {"returned", "SyntaxError"}
            /\ last.out = "returned" <=>
                  /\ LiveSystemIdIsValid(Described(b).id)
                  /\ FractalIdIsValid(Described(b).fractalId)
                  /\ Described(b).components # <<>>
                  /\ AllComponentsValid(Described(b).components)

C6_Witness ==
    /\ kind = "LiveSystem" /\ BuildBy("b1")
    /\ last.out = "SyntaxError"
    /\ LiveSystemIdIsValid(Described("b1").id)
    /\ ~FractalIdIsValid(Described("b1").fractalId)
    /\ Described("b1").components # <<>>
    /\ AllComponentsValid(Described("b1").components)

\* C7: when Component build() fails, the set of fields its error messages
\* mention is the set of fields (id, type, version, display name) that are
\* invalid in the builder's state; it returns only when none is invalid.
C7_ComponentErrorsNameInvalidFields ==
    (kind \in CompKinds /\ BuildBy("b1")) =>
        /\ last.out = "SyntaxError" =>
              FieldsMentioned(last.errs) = InvalidFields(comp)
        /\ last.out = "returned" <=> InvalidFields(comp) = {}

C7_Witness ==
    /\ kind = "Component" /\ BuildBy("b1")
    /\ last.out = "SyntaxError"
    /\ InvalidFields(comp) = {"type", "displayName"}


\* the format a leaf builder's value has to match
LeafFormat(k, value) ==
    CASE k = "KebabCaseString" -> MatchesKebabCase(value)
      [] k = "PascalCaseString" -> MatchesPascalCase(value)
      [] OTHER -> MatchesUuid(value)

\* the builders that validate in build(): kebab_case_string, the
\* pascal_case_string and the first getOwnerIdBuilder of owner_id.ts
DeferredKinds == {"KebabCaseString", "PascalCaseString", "OwnerId"}

\* C8: withValue on an OwnerId, KebabCaseString or PascalCaseString builder
\* with a candidate that fails the format check throws RangeError at once,
\* and the builder does not hold the rejected candidate afterwards.
C8_WithValueRejectsEagerly ==
    (kind \in DeferredKinds /\ last.op = "withValue"
     /\ ~LeafFormat(kind, last.arg))
    => (last.out = "RangeError" /\ ~(last.arg # EmptyString /\ leafValue = last.arg))

UuidKinds == {"OwnerId", "OwnerIdEager", "ServiceAccountId"}

\* C10: an OwnerId or ServiceAccountId returned by build() matches the
\* 8-4-4-4-12 hexadecimal pattern, whatever withValue and reset calls came
\* before, those that threw included.
C10_BuiltIdsAreUuids ==
    (kind \in UuidKinds /\ leafBuilt # Nothing)
    => MatchesUuid(leafBuilt[1].value)

C10_Witness ==
    /\ kind = "OwnerIdEager"
    /\ last.op = "build" /\ last.out = "returned"
    /\ leafBuilt = Some([value |-> UuidB])


\* toString: () => internalState.value, of the object the kebab or pascal
\* builder returned: it reads the builder's state when it is called
LeafResultToString == leafValue

\* equals: other => internalState.value === other.value, of the last built
\* KebabCaseString or PascalCaseString
LeafResultEquals(other) == leafValue = other.value

\* C11: getKebabCaseStringBuilder().withValue(s).build() returns a
\* KebabCaseString whose value and toString() are s when s matches
\* ^[a-z][a-z0-9]*(-[a-z][a-z0-9]*)*$, and returns nothing (it throws) when
\* s does not match, the empty string included.
C11_KebabRoundTrip ==
    [][(KebabBuild /\ last.op = "withValue") =>
          IF MatchesKebabCase(last.arg)
          THEN /\ last'.out = "returned"
               /\ leafBuilt' = Some([value |-> last.arg])
               /\ LeafResultToString' = last.arg
          ELSE /\ last'.out = "SyntaxError"
               /\ leafBuilt' = leafBuilt]_vars

C11_Witness ==
    /\ kind = "KebabCaseString"
    /\ last.op = "build" /\ last.out = "returned"
    /\ leafBuilt = Some([value |-> <<"a","1","-","b","2">>])
    /\ LeafResultToString = <<"a","1","-","b","2">>


\* the constituent values of two identifiers are pairwise equal
SameConstituents(k, a, b) ==
    CASE k = "ComponentId" -> a.value.value = b.value.value
      [] k = "FractalId" ->
            /\ a.boundedContextId.ownerType = b.boundedContextId.ownerType
            /\ a.boundedContextId.ownerId.value
               = b.boundedContextId.ownerId.value
            /\ a.boundedContextId.name.value = b.boundedContextId.name.value
            /\ a.name.value = b.name.value
            /\ a.version = b.version
      [] OTHER ->
            /\ a.ownerType = b.ownerType
            /\ a.ownerId.value = b.ownerId.value
            /\ a.name.value = b.name.value

\* C12: two ComponentIds, BoundedContextIds or FractalIds whose constituent
\* values are pairwise equal are equal, in both directions, whichever
\* builders and constituent objects they were built from.
C12_EqualConstituentsEqualIds ==
    (kind \in {"ComponentId", "BoundedContextId", "FractalId"}
     /\ last.op = "equals"
     /\ SameConstituents(kind, pair.a, pair.b))
    => last.out = "true"

\* C13: equals of two built BoundedContextIds or EnvironmentIds is true only
\* if owner type, owner id and name are all equal.
C13_EqualsComparesEveryField ==
    (kind \in {"BoundedContextId", "EnvironmentId"}
     /\ last.op = "equals" /\ last.out = "true")
    => SameConstituents(kind, pair.a, pair.b)

C13_Witness ==
    /\ kind = "BoundedContextId"
    /\ last.op = "equals" /\ last.out = "false"
    /\ pair.a.ownerType = pair.b.ownerType
    /\ pair.a.name.value = pair.b.name.value
    /\ pair.a.ownerId.value # pair.b.ownerId.value


\* C14: every Version returned by build() has non-negative major, minor
\* and patch and is not 0.0.0, whatever withMajor, withMinor, withPatch and
\* reset calls came before, those that threw RangeError included.
C14_BuiltVersionIsValid ==
    (kind = "Version" /\ built # Nothing) =>
        /\ built[1].major >= 0 /\ built[1].minor >= 0 /\ built[1].patch >= 0
        /\ built[1] # DEFAULT_VERSION


\* the keys whose most recent operation was a push
PushedNames == {n \in FieldNames : container.latest[n] # Undefined}

\* C15: getRequiredFieldByName(name) throws exactly when name is absent
\* (never pushed, or removed after its last push) and returns the stored
\* value otherwise; getOptionalFieldByName(name) never throws and returns
\* null exactly when name is absent.
C15_RequiredThrowsOptionalNull ==
    kind = "Parameters" =>
        /\ last.op = "getRequiredFieldByName" =>
              IF last.arg \in PushedNames
              THEN last.out = container.latest[last.arg]
              ELSE last.out = "Error"
        /\ last.op = "getOptionalFieldByName" =>
              IF last.arg \in PushedNames
              THEN last.out = container.latest[last.arg]
              ELSE last.out = "null"

\* C16: after any pushes and removes, getAllFieldNames() is the set of keys
\* whose most recent operation was a push, and getRequiredFieldByName(k)
\* returns the value of the most recent push of each such key.
C16_FieldNamesFollowPushes ==
    kind = "Parameters" =>
        /\ last.op = "getAllFieldNames" => last.out = PushedNames
        /\ (last.op = "getRequiredFieldByName" /\ last.arg \in PushedNames)
           => last.out = container.latest[last.arg]


\* every constituent of an identifier is valid: the owner id is a UUID, the
\* name is in kebab case, the version is set, the bounded context id is valid
IdConstituentsValid(k, id) ==
    CASE k \in OwnedIdBuilderKinds -> BoundedContextIdIsValid(id)
      [] k = "FractalIdBuilder" -> FractalIdIsValid(id)
      [] k = "LiveSystemIdBuilder" -> LiveSystemIdIsValid(id)

\* C17: build() of a composite identifier (BoundedContextId, EnvironmentId,
\* FractalId, LiveSystemId) throws SyntaxError whenever a constituent is
\* default or invalid, and no identifier build() returned has an invalid
\* constituent.
C17_CompositeIdBuildValidates ==
    kind \in IdBuilderKinds =>
        /\ (last.op = "build" /\ ~IdConstituentsValid(kind, idState))
           => last.out = "SyntaxError"
        /\ built # Nothing => IdConstituentsValid(kind, built[1])

C17_Witness ==
    /\ kind = "BoundedContextIdBuilder (boolean)"
    /\ last.op = "build"
    /\ last.out = "SyntaxError"
    /\ MatchesKebabCase(idState.name.value)
    /\ built # Nothing


\* what the existence check reported
ReportedExisting(answer) == answer = "200"
ReportedAbsent(answer) == answer \in {"204", "404"}

\* C18: Fractal deploy first issues a GET on the blueprint URL and, only
\* after the GET was answered, exactly one write to the same URL: PUT when
\* the answer reported that the blueprint exists, POST when it reported that
\* the blueprint is absent.
C18_DeployChecksThenWritesOnce ==
    (kind = "FractalService" /\ service.op = "deploy") =>
        /\ service.requests[1].method = "GET"
        /\ Len(service.requests) > 1 => Len(service.answers) > 0
        /\ (Len(service.answers) > 0
            /\ (ReportedExisting(service.answers[1])
                \/ ReportedAbsent(service.answers[1])))
           => /\ Len(service.requests) = 2
              /\ service.requests[2].url = service.requests[1].url
              /\ service.requests[2].method =
                    IF ReportedExisting(service.answers[1]) THEN "PUT"
                    ELSE "POST"

\* C19: whatever failure the transport reports for a request of a Fractal
\* or LiveSystem deploy, with or without an HTTP response, the promise
\* deploy returned resolves and never rejects.
C19_DeployNeverRejects ==
    (kind \in ServiceKinds /\ service.op = "deploy") =>
        service.promise # "rejected"

\* C20: a deploy or destroy call leaves the aggregate as it was: its id,
\* its description and its components with their parameters, links and
\* dependencies.
C20_SerializationIsPure ==
    [][(kind \in ServiceKinds) =>
          (built' = built
           /\ heap'[built[1].entity.components]
              = heap[built[1].entity.components])]_vars

C20_Witness ==
    /\ kind \in ServiceKinds
    /\ service.op = "deploy"
    /\ service.pc = "done"
    /\ \E i \in DOMAIN AggregateComponents :
          /\ AggregateComponents[i].links # <<>>
          /\ AggregateComponents[i].dependencies # <<>>
    /\ \E i \in DOMAIN service.requests : service.requests[i].body # <<>>


\* the write request of a Fractal deploy, once it was issued
FractalWriteIssued ==
    kind = "FractalService" /\ service.op = "deploy"
    /\ Len(service.requests) = 2

WireComponentIds(components) ==
    {KebabToString(components[i].id.value) : i \in DOMAIN components}

\* each flattened component carries its dependencies as id strings and its
\* links as {componentId, settings} pairs
FlattenedAsDescribed(wire, c) ==
    /\ wire.id = KebabToString(c.id.value)
    /\ Len(wire.dependencies) = Len(c.dependencies)
    /\ \A j \in DOMAIN c.dependencies :
          wire.dependencies[j] = KebabToString(c.dependencies[j].id.value)
    /\ Len(wire.links) = Len(c.links)
    /\ \A j \in DOMAIN c.links :
          /\ DOMAIN wire.links[j] = {"componentId", "settings"}
          /\ wire.links[j].componentId = KebabToString(c.links[j].id.value)

\* the keys of an array, as a JSON reader or Object.keys sees them: "0", "1",
\* and so on
ArrayKeys(array) == {NumberToString(i - 1) : i \in DOMAIN array}

\* C21 as stated: the body of the Fractal deploy write request carries
\* components as a mapping from component id to flattened component, with
\* one entry per component of the Fractal.
C21_ComponentsKeyedById ==
    FractalWriteIssued =>
        LET wire == service.requests[2].body.components
        IN  /\ ArrayKeys(wire) = WireComponentIds(AggregateComponents)
            /\ Cardinality(ArrayKeys(wire)) = Len(AggregateComponents)

\* C21, amended: the body carries components as a list with one flattened
\* component per component of the Fractal, in the Fractal's order, each with
\* its dependencies as bare id strings and its links as
\* {componentId, settings} pairs.
C21_ComponentsListed ==
    FractalWriteIssued =>
        LET wire == service.requests[2].body.components
        IN  /\ DOMAIN wire = 1..Len(AggregateComponents)
            /\ \A i \in DOMAIN wire :
                  FlattenedAsDescribed(wire[i], AggregateComponents[i])

C21_Witness ==
    /\ FractalWriteIssued
    /\ Len(service.requests[2].body.components) = 2
    /\ Cardinality(WireComponentIds(AggregateComponents)) = 1
    /\ \E i \in DOMAIN AggregateComponents :
          AggregateComponents[i].links # <<>>


\* C22: for built ComponentIds, BoundedContextIds and FractalIds the
\* identifier rebuilt from the constituents read back out of toString() is
\* equal to the original, and two built identifiers have the same string
\* exactly when they are equal.
C22_CanonicalStringRoundTrips ==
    kind \in RoundTripKinds =>
        /\ last.op = "roundTrip" => last.out = "true"
        /\ last.op = "equals" =>
              (last.out = "true"
               <=> IdToString(kind, pair.a) = IdToString(kind, pair.b))


\* C23: toString() of a built KebabCaseString or PascalCaseString returns
\* the value field of that object, and equals compares that same value, also
\* after its builder was given another value or was reset.
C23_BuiltStringKeepsItsValue ==
    (kind \in {"KebabCaseString", "PascalCaseString"} /\ leafBuilt # Nothing)
    => /\ LeafResultToString = leafBuilt[1].value
       /\ LeafResultEquals(leafBuilt[1])


\* the request a service sends for the aggregate as build() returned it
TransmitsAsBuilt(request) ==
    LET e == service.asBuilt
    IN  IF kind = "FractalService"
        THEN /\ request.url = fractalUrl(e.id)
             /\ request.method \in {"PUT", "POST"} =>
                   request.body = SerializeFractal(e, e.components).body
        ELSE /\ request.method = "DELETE" => request.url = liveSystemUrl(e.id)
             /\ request.method = "POST" =>
                   request.body = SerializeLiveSystem(e, e.components).body

\* C24: deploy() and destroy() on a built Fractal or LiveSystem transmit the
\* id, description and components the entity had when build() returned,
\* also when its builder was modified (withId, withDescription,
\* withComponent) or reset in between.
C24_DeployTransmitsAsBuilt ==
    kind \in ServiceKinds =>
        \A i \in DOMAIN service.requests :
            TransmitsAsBuilt(service.requests[i])


\* C25: the promise of Fractal deploy is settled only once its write request
\* (PUT or POST) has been answered: deploy is never resolved while the write
\* is in flight.
C25_DeploySettlesAfterWrite ==
    (kind = "FractalService" /\ service.op = "deploy"
        /\ service.promise \in {"resolved", "rejected"}
        /\ \E i \in DOMAIN service.requests :
               service.requests[i].method \in {"PUT", "POST"})
    => Len(service.answers) = Len(service.requests)


\* C26: a Version builder setter that throws RangeError leaves the stored
\* major, minor and patch as they were before the call.
C26_ThrowingSetterKeepsState ==
    [][(kind = "Version" /\ last'.out = "RangeError")
          => (versionState' = versionState)]_vars


\* C27: the blueprintMap of the LiveSystem deploy body has exactly one entry
\* for each component of the built LiveSystem: no component is dropped or
\* overwritten by another one.
C27_BlueprintMapKeepsEveryComponent ==
    (kind = "LiveSystemService" /\ service.op = "deploy") =>
        LET wire == service.requests[1].body.blueprintMap
        IN  /\ Cardinality(DOMAIN wire) = Len(AggregateComponents)
            /\ \A i \in DOMAIN AggregateComponents :
                  \E id \in DOMAIN wire :
                      wire[id] = WireComponent(AggregateComponents[i])


\* C28: every LiveSystem returned by build() carries an environment that
\* passes the validation of environments, so it never carries the default
\* environment id (empty owner id, empty name).
C28_BuiltLiveSystemHasValidEnvironment ==
    (kind = "LiveSystem" /\ built # Nothing) =>
        /\ Len(isValidEnvironment(built[1].entity.environment)) = 0
        /\ built[1].entity.environment.id # DEFAULT_ENVIRONMENT_ID


\* C29: isValidComponent reports each violated rule exactly once: no error
\* occurs twice in the list build() throws, and the length of the list is
\* the sum of the numbers of id, type, version and display-name errors.
C29_ComponentErrorsReportedOnce ==
    (kind = "Component" /\ BuildBy("b1")) =>
        /\ \A i, j \in DOMAIN last.errs :
              last.errs[i] = last.errs[j] => i = j
        /\ Len(last.errs) =
              Len(isValidId(comp.id)) + Len(isValidComponentType(comp.type))
              + Len(isValidVersion(comp.version))
              + (IF isNonEmptyString(comp.displayName) THEN 0 ELSE 1)


\* the component held in h was built by a builder that withParameters was
\* not called on since it was made or reset
BuiltWithoutParameters(h) ==
    /\ pair[h] # Nothing
    /\ pair[h][1].component.parameters = DefaultComponentParameters

\* C30: components built without withParameters share no parameter
\* container: the parameters of such a built component hold exactly the keys
\* pushed, and not removed, through that component; a push or remove on
\* another built component, earlier or later, never shows through it.
C30_BuiltParametersAreOwned ==
    (kind = "Component" /\ pair # <<>>) =>
        \A h \in Holders :
            BuiltWithoutParameters(h) =>
                ObjectKeys(HeldParameters(h)) = pair[h][1].pushed

====
